---------------------------- MODULE Spec2Model ----------------------------
(***************************************************************************)
(* A model of the MDX writer of the sphinx-mdx-builder extension            *)
(* (sphinxcontrib/mdxbuilder/writers/mdx.py): the width-aware TextWrapper   *)
(* and the MdxTranslator visitor that is driven by docutils' walkabout.     *)
(*                                                                          *)
(* A string is a sequence of one-character strings.  The element "WIDE"     *)
(* stands for one full-width character (east_asian_width W or F, such as    *)
(* U+4E2D): a word character of display width 2 that is not in [a-zA-Z].    *)
(* The element "BQ" stands for the backquote.                               *)
(***************************************************************************)
EXTENDS Integers, Sequences, FiniteSets, TLC

VARIABLES
    \* ---- TextWrapper run (my_wrap) ----
    w_pc,        \* "idle" | "call" | "loop" | "done" | "raised"
    w_text,      \* the text handed to my_wrap
    w_width,     \* self.width
    w_chunks,    \* the chunks not yet consumed (chunks[-1] of the code is Head)
    w_lines,     \* lines
    \* ---- the document and docutils' walkabout over it ----
    tree,            \* the document tree (read only)
    path,            \* the open nodes, root first: the child index of each in
                     \* its parent, the index of its next child, and the
                     \* depth of the buffer stack before its visit hook ran
    pc,              \* "idle" | "start" | "walk" | "done" | "raised" | "hung"
    \* ---- MdxTranslator fields ----
    max_line_width,
    states,          \* the stack of buffers
    stateindent,
    list_counter,
    classifier_count,    \* _classifier_count_in_li
    messages,
    warned,          \* _warned
    logged,          \* what SphinxTranslator.unknown_visit has logged
    in_literal,
    sectionlevel,
    reference_uri,
    table_header,    \* table_header, current_row and the elements of
    table_body,      \* table_body are references to list objects: indices
    current_row,     \* into row_objs
    row_objs,        \* the row lists allocated so far
    in_table_header,
    colwidths,
    colaligns,
    body,
    desc_count,
    missing,         \* the fields __init__ does not create and no hook has
                     \* assigned so far: reading one raises AttributeError
    \* ---- AirflowDefinitionsData ----
    a_pc,        \* "idle" | "ready" | "returned"
    a_specs,     \* mapped_defs.get_all_asset_specs()
    a_cache,     \* the cached mapped_asset_keys_by_task_handle, once computed
    a_query,     \* the TaskHandle asset_keys_in_task was last called with
    a_result     \* what asset_keys_in_task returned last

wvars == <<w_pc, w_text, w_width, w_chunks, w_lines>>
inputv == <<tree, max_line_width>>
bufv == <<states, stateindent>>
listv == <<list_counter, classifier_count>>
diagv == <<messages, warned, logged>>
flagv == <<in_literal, sectionlevel, reference_uri>>
tablev == <<table_header, table_body, current_row, row_objs, in_table_header,
            colwidths, colaligns>>
tvars == <<inputv, path, pc, bufv, listv, diagv, flagv, tablev, body, missing,
          desc_count>>

avars == <<a_pc, a_specs, a_cache, a_query, a_result>>

vars == <<wvars, tvars, avars>>

\* ---------------------------------------------------------------- bounds
MaxLen == 5        \* longest text handed to the wrapper
MaxWidth == 4      \* largest wrap width tried

\* ------------------------------------------------------- sequence helpers
Last(s) == s[Len(s)]
Front(s) == SubSeq(s, 1, Len(s) - 1)

RECURSIVE Concat(_)
Concat(ss) == IF ss = <<>> THEN <<>> ELSE Head(ss) \o Concat(Tail(ss))

RECURSIVE SumSeq(_)
SumSeq(s) == IF s = <<>> THEN 0 ELSE Head(s) + SumSeq(Tail(s))

Max(a, b) == IF a >= b THEN a ELSE b

\* ------------------------------------------------------ character classes
WideChars == {"WIDE"}
SpaceChars == {" ", "\n"}                                   \* \s
LowerLetters ==
    {"a", "b", "c", "d", "e", "f", "g", "h", "i", "j", "k", "l", "m", "n", "o", "p", "q", "r", "s", "t", "u", "v", "w", "x", "y", "z"}
UpperLetters ==
    {"A", "B", "C", "D", "E", "F", "G", "H", "I", "J", "K", "L", "M", "N", "O", "P", "Q", "R", "S", "T", "U", "V", "W", "X", "Y", "Z"}
AsciiLetters == LowerLetters \cup UpperLetters
DigitChars == {"0", "1", "2", "3", "4", "5", "6", "7", "8", "9"}
BackQuote == "BQ"
IsSpace(c) == c \in SpaceChars
IsAlpha(c) == c \in AsciiLetters                            \* [a-zA-Z]
IsWord(c) == c \in AsciiLetters \cup DigitChars \cup WideChars \cup {"_"}   \* \w
IsRoleChar(c) == c \in LowerLetters \cup {"-"}                 \* [a-z-]
IsDashLead(c) == IsWord(c) \/ c \in {"!", "\"", "'", "&", ".", ",", "?"}

\* docutils.utils.column_width of one character and of a string
CharWidth(c) == IF c \in WideChars THEN 2 ELSE 1

RECURSIVE column_width(_)
column_width(s) == IF s = <<>> THEN 0 ELSE CharWidth(Head(s)) + column_width(Tail(s))

IsBlank(s) == \A i \in 1..Len(s) : IsSpace(s[i])            \* s.strip() == ""

\* ------------------------------------------------- TextWrapper.wordsep_re
\* Each alternative, tried at position p of s: the index just after the
\* match, or 0 when the alternative does not match there.

\* character classes by name, for the scans below
InClass(cls, c) ==
    CASE cls = "space" -> IsSpace(c)
      [] cls = "nonspace" -> ~IsSpace(c)
      [] cls = "word" -> IsWord(c)
      [] cls = "punct" -> ~IsSpace(c) /\ ~IsWord(c)
      [] cls = "role" -> IsRoleChar(c)
      [] cls = "dash" -> c = "-"
      [] cls = "narrow" -> CharWidth(c) = 1
      [] cls = "wide" -> CharWidth(c) = 2

RECURSIVE RunEnd(_, _, _)
\* index just after the maximal run of characters of class cls from p on
RunEnd(s, p, cls) ==
    IF p <= Len(s) /\ InClass(cls, s[p]) THEN RunEnd(s, p + 1, cls) ELSE p

\* \s+
AltSpace(s, p) == LET e == RunEnd(s, p, "space") IN IF e > p THEN e ELSE 0

\* (?<=\s)(?::[a-z-]+:)?BQ\S+   (interpreted text start)
AltInterpreted(s, p) ==
    IF ~(p > 1 /\ IsSpace(s[p - 1])) THEN 0
    ELSE LET r == RunEnd(s, p + 1, "role")
             q == IF s[p] = ":" /\ r > p + 1 /\ r <= Len(s) /\ s[r] = ":" THEN r + 1 ELSE p
             tick(t) == IF t <= Len(s) /\ s[t] = BackQuote /\ RunEnd(s, t + 1, "nonspace") > t + 1
                        THEN RunEnd(s, t + 1, "nonspace") ELSE 0
         IN IF tick(q) # 0 THEN tick(q) ELSE tick(p)

\* \w+[a-zA-Z] matched inside the maximal word run [b, e): the run is long
\* enough and some character after its first is a letter
HasLetterAfterFirst(s, b, e) == \E j \in (b + 1)..(e - 1) : IsAlpha(s[j])

\* [^\s\w]*\w+[a-zA-Z]-(?=\w+[a-zA-Z])
AltHyphenated(s, p) ==
    LET b == RunEnd(s, p, "punct")     \* after the leading punctuation
        e == RunEnd(s, b, "word")              \* after the word run
        f == RunEnd(s, e + 1, "word")          \* after the word run behind the hyphen
    IN IF /\ e - b >= 2
          /\ IsAlpha(s[e - 1])
          /\ e <= Len(s) /\ s[e] = "-"
          /\ HasLetterAfterFirst(s, e + 1, f)
       THEN e + 1 ELSE 0

\* (?<=[\w\!\"\'\&\.\,\?])-{2,}(?=\w)
RECURSIVE DashEnd(_, _, _)
\* -{2,} backtracks from the whole run of dashes down to two of them
DashEnd(s, p, e) ==
    IF e - p < 2 THEN 0
    ELSE IF e <= Len(s) /\ IsWord(s[e]) THEN e
    ELSE DashEnd(s, p, e - 1)

AltEmDash(s, p) ==
    IF ~(p > 1 /\ IsDashLead(s[p - 1])) THEN 0
    ELSE DashEnd(s, p, RunEnd(s, p, "dash"))

MatchAt(s, p) ==
    IF AltSpace(s, p) # 0 THEN AltSpace(s, p)
    ELSE IF AltInterpreted(s, p) # 0 THEN AltInterpreted(s, p)
    ELSE IF AltHyphenated(s, p) # 0 THEN AltHyphenated(s, p)
    ELSE AltEmDash(s, p)

\* textwrap.TextWrapper._split: wordsep_re.split(text) without the empty pieces
RECURSIVE SplitFrom(_, _, _)
SplitFrom(s, b, p) ==
    IF p > Len(s) THEN (IF b <= Len(s) THEN <<SubSeq(s, b, Len(s))>> ELSE <<>>)
    ELSE LET e == MatchAt(s, p) IN
         IF e = 0 THEN SplitFrom(s, b, p + 1)
         ELSE (IF b < p THEN <<SubSeq(s, b, p - 1)>> ELSE <<>>)
              \o <<SubSeq(s, p, e - 1)>> \o SplitFrom(s, e, e)

BaseSplit(s) == SplitFrom(s, 1, 1)

\* itertools.groupby(chunk, column_width): the maximal runs of equal width
RECURSIVE GroupBy(_)
GroupBy(s) ==
    IF s = <<>> THEN <<>>
    ELSE LET e == RunEnd(s, 1, IF CharWidth(s[1]) = 1 THEN "narrow" ELSE "wide")
         IN <<SubSeq(s, 1, e - 1)>> \o GroupBy(SubSeq(s, e, Len(s)))

Explode(s) == [i \in 1..Len(s) |-> <<s[i]>>]                \* list(g)

RECURSIVE SplitGroups(_)
SplitGroups(gs) ==
    IF gs = <<>> THEN <<>>
    ELSE (IF CharWidth(Head(gs)[1]) = 1 THEN BaseSplit(Head(gs)) ELSE Explode(Head(gs)))
         \o SplitGroups(Tail(gs))

RECURSIVE SplitChunks(_)
SplitChunks(cs) ==
    IF cs = <<>> THEN <<>> ELSE SplitGroups(GroupBy(Head(cs))) \o SplitChunks(Tail(cs))

Split_NoGroupBy(s) == BaseSplit(s)

\* TextWrapper._split
Split(s) == SplitChunks(BaseSplit(s))

\* textwrap's _munge_whitespace: every whitespace character becomes a space
Munge(s) == [i \in 1..Len(s) |-> IF IsSpace(s[i]) THEN " " ELSE s[i]]

\* ------------------------------------------------ TextWrapper._break_word
RECURSIVE BreakIndex(_, _, _, _)
\* the first 0-based index i at which the running total exceeds space_left,
\* or Len(word) when there is none
BreakIndex(word, space_left, i, total) ==
    IF i >= Len(word) THEN Len(word)
    ELSE IF total + CharWidth(word[i + 1]) > space_left THEN i
    ELSE BreakIndex(word, space_left, i + 1, total + CharWidth(word[i + 1]))

\* Python's word[:k], word[k:] for k = i - 1, where k = -1 counts from the end
SliceAt(word, k) ==
    LET cut == IF k < 0 THEN Max(Len(word) + k, 0) ELSE k
    IN <<SubSeq(word, 1, cut), SubSeq(word, cut + 1, Len(word))>>

BreakWord_TakesOverflow(word, space_left) ==
    LET i == BreakIndex(word, space_left, 0, 0)
    IN IF i >= Len(word) THEN <<word, <<>>>> ELSE SliceAt(word, i + 1)

BreakWord(word, space_left) ==
    LET i == BreakIndex(word, space_left, 0, 0)
    IN IF i >= Len(word) THEN <<word, <<>>>> ELSE SliceAt(word, i - 1)

\* -------------------------------------------- TextWrapper._handle_long_word
break_long_words == TRUE
drop_whitespace == TRUE
initial_indent == <<>>
subsequent_indent == <<>>

HandleLongWord(chunks, cur_line, cur_len, width) ==
    LET space_left == Max(width - cur_len, 1)
        br == BreakWord(Head(chunks), space_left)
    IN IF break_long_words
       THEN [chunks |-> <<br[2]>> \o Tail(chunks), cur_line |-> Append(cur_line, br[1])]
       ELSE IF cur_line = <<>>
       THEN [chunks |-> Tail(chunks), cur_line |-> <<Head(chunks)>>]
       ELSE [chunks |-> chunks, cur_line |-> cur_line]

\* ---------------------------------------------- TextWrapper._wrap_chunks
RECURSIVE Pack(_, _, _, _)
\* the inner while loop: chunks are taken while they fit
Pack(chunks, cur_line, cur_len, width) ==
    IF chunks # <<>> /\ cur_len + column_width(Head(chunks)) <= width
    THEN Pack(Tail(chunks), Append(cur_line, Head(chunks)),
              cur_len + column_width(Head(chunks)), width)
    ELSE [chunks |-> chunks, cur_line |-> cur_line, cur_len |-> cur_len]

\* one iteration of the outer while loop (chunks is not empty)
WrapIteration(chunks, lines, selfwidth) ==
    LET indent == IF lines # <<>> THEN subsequent_indent ELSE initial_indent
        width == selfwidth - column_width(indent)
        c1 == IF drop_whitespace /\ IsBlank(Head(chunks)) /\ lines # <<>>
              THEN Tail(chunks) ELSE chunks
        pk == Pack(c1, <<>>, 0, width)
        h == IF pk.chunks # <<>> /\ column_width(Head(pk.chunks)) > width
             THEN HandleLongWord(pk.chunks, pk.cur_line, pk.cur_len, width)
             ELSE [chunks |-> pk.chunks, cur_line |-> pk.cur_line]
        cl == IF drop_whitespace /\ h.cur_line # <<>> /\ IsBlank(Last(h.cur_line))
              THEN Front(h.cur_line) ELSE h.cur_line
    IN [chunks |-> h.chunks,
        lines |-> IF cl # <<>> THEN Append(lines, indent \o Concat(cl)) ELSE lines]

\* my_wrap(text, width) as a function: the lines, or the ValueError, or no
\* return at all when an iteration leaves chunks and lines as they were
RECURSIVE WrapLoop(_, _, _)
WrapLoop(chunks, lines, width) ==
    IF chunks = <<>> THEN [status |-> "ok", lines |-> lines]
    ELSE LET n == WrapIteration(chunks, lines, width) IN
         IF n.chunks = chunks /\ n.lines = lines
         THEN [status |-> "hang", lines |-> lines]
         ELSE WrapLoop(n.chunks, n.lines, width)

my_wrap(text, width) ==
    IF width <= 0 THEN [status |-> "raise", lines |-> <<>>]
    ELSE WrapLoop(Split(Munge(text)), <<>>, width)

\* ======================================================== MdxTranslator
STDINDENT == 4
DefaultLineWidth == 120

\* ------------------------------------------------------------- strings
Digit(d) == <<"0", "1", "2", "3", "4", "5", "6", "7", "8", "9">>[d + 1]

RECURSIVE Str(_)
\* str(n) of an integer
Str(n) ==
    IF n < 0 THEN <<"-">> \o Str(0 - n)
    ELSE IF n < 10 THEN <<Digit(n)>>
    ELSE Str(n \div 10) \o <<Digit(n % 10)>>

RECURSIVE Repeat(_, _)
\* c * n: the empty string when n <= 0
Repeat(c, n) == IF n <= 0 THEN <<>> ELSE <<c>> \o Repeat(c, n - 1)

RECURSIVE Join(_, _)
\* sep.join(parts)
Join(parts, sep) ==
    IF parts = <<>> THEN <<>>
    ELSE IF Len(parts) = 1 THEN parts[1]
    ELSE parts[1] \o sep \o Join(Tail(parts), sep)

RECURSIVE SplitOn(_, _)
\* s.split(c): the pieces between the occurrences of c
SplitOn(s, c) ==
    LET hit == {i \in 1..Len(s) : s[i] = c} IN
    IF hit = {} THEN <<s>>
    ELSE LET i == CHOOSE j \in hit : \A k \in hit : j <= k
         IN <<SubSeq(s, 1, i - 1)>> \o SplitOn(SubSeq(s, i + 1, Len(s)), c)

\* s.splitlines(): a trailing line break opens no further line
splitlines(s) ==
    LET pieces == SplitOn(s, "\n")
    IN IF Last(pieces) = <<>> THEN Front(pieces) ELSE pieces

RECURSIVE LStrip(_)
LStrip(s) == IF s # <<>> /\ IsSpace(Head(s)) THEN LStrip(Tail(s)) ELSE s

RECURSIVE RStrip(_)
RStrip(s) == IF s # <<>> /\ IsSpace(Last(s)) THEN RStrip(Front(s)) ELSE s

Strip(s) == RStrip(LStrip(s))                               \* s.strip()

\* s.replace(a, b) for a single character a
Replace(s, a, b) == Concat([i \in 1..Len(s) |-> IF s[i] = a THEN b ELSE <<s[i]>>])

\* ------------------------------------------------------ document tree
\* A node: its class name, its attributes (attr, text, num: which of them a
\* class uses is said where the trees are built; alt is the alt attribute
\* of an image, <<>> when the node has none) and its children.
\* A desc_signature has attr = "is_multiline" when that attribute is set; an
\* option_argument has attr = "delimiter" and the delimiter in text when it
\* carries one; a system_message has attr = "source" when it carries source,
\* type and level: text is the source, alt the type, num the level and line
\* the line number, <<>> when the node has none.
N(kind, attr, text, num, kids) ==
    [kind |-> kind, attr |-> attr, text |-> text, num |-> num, kids |-> kids,
     alt |-> <<>>, line |-> <<>>]

RECURSIVE NodeAt(_, _)
NodeAt(n, idx) == IF idx = <<>> THEN n ELSE NodeAt(n.kids[Head(idx)], Tail(idx))

\* the child indices along a path, below the root
Indices(p) == [k \in 1..(Len(p) - 1) |-> p[k + 1].i]

\* the docutils and sphinx classes without a hook of their own that derive
\* from a class that has one
InlineSubclasses ==
    {"desc_sig_element", "desc_sig_keyword", "desc_sig_keyword_type",
     "desc_sig_literal_char", "desc_sig_literal_number", "desc_sig_literal_string",
     "desc_sig_name", "desc_sig_operator", "desc_sig_punctuation"}
ReferenceSubclasses == {"download_reference", "number_reference"}
ParagraphSubclasses == {"compact_paragraph"}
CommentSubclasses == {"autosummary_table", "autosummary_toc"}

\* the docutils and sphinx classes derived from nodes.TextElement, whose
\* child_text_separator is ""; every other Element class has "\n\n"
TextElementKinds ==
    {"abbreviation", "acronym", "address", "attribution", "author", "caption",
     "centered", "citation_reference", "classifier", "comment", "contact", "copyright",
     "date", "desc_addname", "desc_annotation", "desc_inline", "desc_name",
     "desc_optional", "desc_parameter", "desc_parameterlist", "desc_returns",
     "desc_sig_space", "desc_signature", "desc_signature_line", "desc_type",
     "desc_type_parameter", "desc_type_parameterlist", "doctest_block", "emphasis",
     "field_name", "footnote_reference", "generated", "index", "inline", "label",
     "line", "literal", "literal_block", "literal_emphasis", "literal_strong",
     "manpage", "math", "math_block", "option_argument", "option_string",
     "organization", "paragraph", "pending_xref_condition", "problematic",
     "production", "raw", "reference", "revision", "rubric", "status", "strong",
     "subscript", "substitution_definition", "substitution_reference", "subtitle",
     "superscript", "target", "term", "title", "title_reference", "version",
     "versionmodified"}
    \cup InlineSubclasses \cup ReferenceSubclasses \cup ParagraphSubclasses
    \cup CommentSubclasses

\* Element has "\n\n" and TextElement ""; the classes below set their own
child_text_separator(n) ==
    IF n.kind \in {"desc_parameterlist", "desc_type_parameterlist", "desc_optional",
                   "option_group"}
    THEN <<",", " ">>
    ELSE IF n.kind = "option_list_item" THEN <<" ", " ">>
    ELSE IF n.kind \in {"option", "pending_xref"} THEN <<>>
    ELSE IF n.kind = "desc_signature" /\ n.attr = "is_multiline" THEN <<" ">>
    ELSE IF n.kind \in TextElementKinds THEN <<>>
    ELSE <<"\n", "\n">>

\* "%s:%s: (%s/%s) " % (source, line, type, level) of a system_message
MessageHead(n) ==
    n.text \o <<":">> \o (IF n.line = <<>> THEN <<>> ELSE Str(n.line[1])) \o <<":", " ", "(">>
        \o n.alt[1] \o <<"/">> \o Str(n.num) \o <<")", " ">>

RECURSIVE astextRaises(_)
\* node.astext() ends in a KeyError: the node or one of the nodes whose
\* text it takes is a system_message without source, type or level
astextRaises(n) ==
    IF n.kind \in {"Text", "image"} THEN FALSE
    ELSE IF n.kind = "system_message" /\ n.attr # "source" THEN TRUE
    ELSE \E k \in 1..Len(n.kids) : astextRaises(n.kids[k])

RECURSIVE astext(_)
RECURSIVE astextAll(_, _)
\* Node.astext(): the text of a Text node; for an Element, the astext of
\* its children joined by the class's child_text_separator; image.astext()
\* is the alt attribute, an option_argument puts its delimiter (a space by
\* default) and a system_message its source, line, type and level before the
\* joined text, and four sphinx classes put it between brackets or behind
\* an arrow
astext(n) ==
    IF n.kind = "Text" THEN n.text
    ELSE IF n.kind = "image" THEN (IF n.alt = <<>> THEN <<>> ELSE n.alt[1])
    ELSE IF n.kind = "option_argument"
    THEN (IF n.attr = "delimiter" THEN n.text ELSE <<" ">>)
             \o astextAll(n.kids, child_text_separator(n))
    ELSE IF n.kind = "system_message"
    THEN MessageHead(n) \o astextAll(n.kids, child_text_separator(n))
    ELSE IF n.kind = "desc_parameterlist"
    THEN <<"(">> \o astextAll(n.kids, child_text_separator(n)) \o <<")">>
    ELSE IF n.kind \in {"desc_type_parameterlist", "desc_optional"}
    THEN <<"[">> \o astextAll(n.kids, child_text_separator(n)) \o <<"]">>
    ELSE IF n.kind = "desc_returns"
    THEN <<" ", "-", ">", " ">> \o astextAll(n.kids, child_text_separator(n))
    ELSE astextAll(n.kids, child_text_separator(n))
astextAll(ns, sep) ==
    IF ns = <<>> THEN <<>>
    ELSE IF Len(ns) = 1 THEN astext(ns[1])
    ELSE astext(Head(ns)) \o sep \o astextAll(Tail(ns), sep)

RECURSIVE CountKind(_, _)
RECURSIVE CountKindAll(_, _)
\* len(list(node.findall(cls))): the node itself and all its descendants
CountKind(n, kind) == (IF n.kind = kind THEN 1 ELSE 0) + CountKindAll(n.kids, kind)
CountKindAll(ns, kind) ==
    IF ns = <<>> THEN 0 ELSE CountKind(Head(ns), kind) + CountKindAll(Tail(ns), kind)

\* ------------------------------------------------- walkabout (docutils)
Cur == NodeAt(tree, Indices(path))                 \* the innermost open node
Parent == NodeAt(tree, Indices(Front(path)))       \* its parent
HasNext == pc = "walk" /\ path # <<>> /\ Last(path).next <= Len(Cur.kids)
Child == Cur.kids[Last(path).next]                 \* the node visited next
\* the node classes MdxTranslator has a visit_ method for
Registered ==
    {"Text", "admonition", "attention", "attribution", "bullet_list", "caution",
     "classifier", "colspec", "comment", "compound", "danger", "definition",
     "definition_list", "definition_list_item", "desc", "desc_addname",
     "desc_annotation", "desc_content", "desc_inline", "desc_name", "desc_optional",
     "desc_parameter", "desc_parameterlist", "desc_returns", "desc_sig_space",
     "desc_signature", "desc_signature_line", "desc_type", "desc_type_parameter",
     "desc_type_parameterlist", "document", "emphasis", "entry", "enumerated_list",
     "error", "field", "field_body", "field_list", "field_name", "flag", "glossary",
     "hint", "image", "important", "index", "inline", "list_item", "literal",
     "literal_block", "literal_emphasis", "literal_strong", "note", "paragraph",
     "problematic", "reference", "row", "rubric", "section", "seealso", "sidebar",
     "strong", "subtitle", "table", "target", "tbody", "term", "tgroup", "thead",
     "tip", "title", "title_reference", "toctree", "topic", "warning"}

\* SphinxTranslator.dispatch_visit and dispatch_departure: the hook of the
\* first class along node.__class__.__mro__ that has one, unknown_visit or
\* unknown_departure when there is none
HookOf(kind) ==
    IF kind \in Registered THEN kind
    ELSE IF kind \in InlineSubclasses THEN "inline"
    ELSE IF kind \in ReferenceSubclasses THEN "reference"
    ELSE IF kind \in ParagraphSubclasses THEN "paragraph"
    ELSE IF kind \in CommentSubclasses THEN "comment"
    ELSE "unknown"

Visiting(kind) == HasNext /\ HookOf(Child.kind) = kind
Departing(kind) ==
    /\ pc = "walk" /\ path # <<>> /\ Last(path).next > Len(Cur.kids)
    /\ HookOf(Cur.kind) = kind

\* the visit hook returned: the children are walked next
Descend == path' = Append(path, [i |-> Last(path).next, next |-> 1, d0 |-> Len(states)])
\* the visit hook raised SkipNode: no children, no departure
SkipNode == path' = [path EXCEPT ![Len(path)].next = @ + 1]
\* the departure hook returned
Ascend ==
    path' = IF Len(path) = 1 THEN <<>>
            ELSE [Front(path) EXCEPT ![Len(path) - 1].next = @ + 1]

\* ------------------------------------------------------------ buffers
TextEntry(t) == [ind |-> -1, text |-> t, lines |-> <<>>]
LinesEntry(i, ls) == [ind |-> i, text |-> <<>>, lines |-> ls]

\* add_text
add_text(sts, t) == [sts EXCEPT ![Len(sts)] = Append(@, TextEntry(t))]

\* new_state
new_state(sts, inds, indent) ==
    [states |-> Append(sts, <<>>), stateindent |-> Append(inds, indent)]

None == <<>>                  \* an absent `first` or `end`
Some(x) == <<x>>              \* first = x
DefaultEnd == <<<<>>>>        \* end = ("",)

\* do_format of end_state: the pending text run as one finalized group
Formatted(res, indent, end) ==
    [status |-> res.status, out |-> <<LinesEntry(indent, res.lines \o end)>>]

do_format(toformat, indent, maxindent, wrap, end, mlw) ==
    IF toformat = <<>> THEN [status |-> "ok", out |-> <<>>]
    ELSE Formatted(IF wrap THEN my_wrap(Concat(toformat), mlw - maxindent)
                   ELSE [status |-> "ok", lines |-> splitlines(Concat(toformat))],
                   indent, end)

RECURSIVE FormatContent(_, _, _, _, _, _, _, _)
\* one round of the loop of end_state over the popped buffer, f being what
\* do_format makes of the pending text run; the final do_format after it
FormatItem(content, toformat, result, indent, maxindent, wrap, end, mlw, e, f) ==
    IF content = <<>> THEN [status |-> f.status, result |-> result \o f.out]
    ELSE IF e.ind = -1
    THEN FormatContent(Tail(content), Append(toformat, e.text), result,
                       indent, maxindent, wrap, end, mlw)
    ELSE IF f.status # "ok" THEN [status |-> f.status, result |-> result]
    ELSE FormatContent(Tail(content), <<>>,
                       result \o f.out \o <<LinesEntry(indent + e.ind, e.lines)>>,
                       indent, maxindent, wrap, end, mlw)

FormatContent(content, toformat, result, indent, maxindent, wrap, end, mlw) ==
    FormatItem(content, toformat, result, indent, maxindent, wrap, end, mlw,
               IF content = <<>> THEN <<>> ELSE Head(content),
               do_format(toformat, indent, maxindent, wrap, end, mlw))

\* the prefix `first` spliced into the first finalized line
InsertFirst(result, indent, first) ==
    IF first = None \/ result = <<>> THEN [status |-> "ok", result |-> result]
    ELSE IF result[1].lines = <<<<>>>>
    THEN [status |-> "ok",
          result |-> <<LinesEntry(result[1].ind - indent, <<first[1]>>)>> \o result]
    ELSE IF result[1].lines = <<>>
    THEN [status |-> "raise", result |-> result]      \* pop from empty list
    ELSE [status |-> "ok",
          result |-> <<LinesEntry(result[1].ind - indent,
                                  <<first[1] \o Head(result[1].lines)>>),
                       [result[1] EXCEPT !.lines = Tail(@)]>> \o Tail(result)]

\* the tail of end_state, self.states[-1].extend(result): the finalized groups
\* g appended to the parent buffer.  sts and inds are the stacks before the
\* two pops at the head of end_state; a call that does not return leaves
\* both popped.
Extend(sts, inds, g) ==
    IF g.status # "ok" \/ Len(sts) < 2
    THEN [status |-> "raise", states |-> Front(sts), stateindent |-> Front(inds)]
    ELSE [status |-> "ok",
          states |-> [Front(sts) EXCEPT ![Len(sts) - 1] = @ \o g.result],
          stateindent |-> Front(inds)]

Finalize(sts, inds, first, f) ==
    IF f.status # "ok"
    THEN [status |-> f.status, states |-> Front(sts), stateindent |-> Front(inds)]
    ELSE Extend(sts, inds, InsertFirst(f.result, Last(inds), first))

\* end_state(wrap, end, first) on the stacks sts and inds
end_state(sts, inds, wrap, end, first, mlw) ==
    Finalize(sts, inds, first,
             FormatContent(Last(sts), <<>>, <<>>, Last(inds), SumSeq(inds), wrap, end, mlw))

\* how a call that did not return ends the run
Failed(status) == IF status = "hang" THEN "hung" ELSE "raised"

\* the fields after a departure hook that ends in end_state(...)
DepartWith(r) ==
    IF r.status = "ok"
    THEN states' = r.states /\ stateindent' = r.stateindent /\ Ascend /\ UNCHANGED pc
    ELSE /\ pc' = Failed(r.status)
         /\ states' = r.states
         /\ stateindent' = r.stateindent
         /\ UNCHANGED path

\* ------------------------------------------------------------- the hooks
\* One action per visit_* / depart_* method: the guard is walkabout reaching
\* that method, the body is the method followed by walkabout's own step.

\* self.config.max_line_width or 120
LineWidthOf(configured) == IF configured = 0 THEN DefaultLineWidth ELSE configured

\* MdxTranslator.__init__
\* the fields that hooks assign and __init__ does not
LateFields ==
    {"_classifier_count_in_li", "reference_uri", "table_header", "table_body",
     "current_row", "in_table_header", "colwidths", "colaligns", "body"}

\* AttributeError on reading a field that does not exist: the hook stops
\* where it is and the run with it
FieldError == pc' = "raised" /\ UNCHANGED path

TranslatorInit ==
    /\ pc = "start"
    /\ path = <<>>
    /\ states = <<<<>>>>
    /\ stateindent = <<0>>
    /\ list_counter = <<>>
    /\ messages = <<>>
    /\ warned = {}
    /\ logged = <<>>
    /\ in_literal = FALSE
    /\ sectionlevel = 0
    /\ desc_count = 0
    \* __init__ creates none of the fields below: the values here are never
    \* read, a hook that reads a field listed in `missing` raises
    /\ missing = LateFields
    /\ classifier_count = 0
    /\ reference_uri = <<>>
    /\ table_header = 0
    /\ table_body = <<>>
    /\ current_row = 0
    /\ row_objs = <<>>
    /\ in_table_header = FALSE
    /\ colwidths = <<>>
    /\ colaligns = <<>>
    /\ body = <<>>

\* the body text: every line of states[0] behind its indentation. The join
\* iterates over the second member of each entry: the lines of a list entry,
\* the characters of the string of a text entry (-1, text), each of them a
\* line of its own behind " " * -1, the empty string
IndentedLines(e) ==
    IF e.ind = -1
    THEN [k \in 1..Len(e.text) |-> <<e.text[k]>>]
    ELSE [k \in 1..Len(e.lines) |->
             IF e.lines[k] = <<>> THEN <<>> ELSE Repeat(" ", e.ind) \o e.lines[k]]

BodyOf(buffer) ==
    Join(Concat([k \in 1..Len(buffer) |-> IndentedLines(buffer[k])]), <<"\n">>)

visit_document ==
    /\ pc = "start"
    /\ tree.kind = "document"
    /\ states' = Append(states, <<>>)
    /\ stateindent' = Append(stateindent, 0)
    /\ path' = <<[i |-> 0, next |-> 1, d0 |-> Len(states)]>>
    /\ pc' = "walk"
    /\ UNCHANGED <<wvars, avars, inputv, desc_count, missing, listv, diagv, flagv, tablev, body>>

\* the fields after depart_document's end_state() and its join of states[0]
DocumentEnd(r) ==
    IF r.status = "ok"
    THEN /\ states' = r.states
         /\ stateindent' = r.stateindent
         /\ body' = BodyOf(r.states[1])
         /\ missing' = missing \ {"body"}
         /\ path' = <<>>
         /\ pc' = "done"
    ELSE /\ pc' = Failed(r.status)
         /\ states' = r.states
         /\ stateindent' = r.stateindent
         /\ UNCHANGED <<path, body, missing>>

depart_document ==
    /\ Departing("document")
    /\ DocumentEnd(end_state(states, stateindent, TRUE, DefaultEnd, None, max_line_width))
    /\ UNCHANGED <<wvars, avars, inputv, desc_count, listv, diagv, flagv, tablev>>

\* ---- paragraph
\* the paragraph is the only child of a list item, a cell, a description
\* body or a field body: it writes into its parent's buffer
ParagraphInline(parent) ==
    /\ parent.kind \in {"list_item", "entry", "desc_content", "field_body"}
    /\ Len(parent.kids) = 1

visit_paragraph ==
    /\ Visiting("paragraph")
    /\ IF ~ParagraphInline(Cur)
       THEN states' = Append(states, <<>>) /\ stateindent' = Append(stateindent, 0)
       ELSE UNCHANGED bufv
    /\ Descend
    /\ UNCHANGED <<wvars, avars, inputv, desc_count, missing, pc, listv, diagv, flagv, tablev, body>>

\* depart_paragraph with end_state() in place of end_state(wrap=False)
depart_paragraph_Wraps ==
    /\ Departing("paragraph")
    /\ IF ~ParagraphInline(Parent)
       THEN DepartWith(end_state(states, stateindent, TRUE, DefaultEnd, None, max_line_width))
       ELSE Ascend /\ UNCHANGED <<bufv, pc>>
    /\ UNCHANGED <<wvars, avars, inputv, desc_count, missing, listv, diagv, flagv, tablev, body>>

depart_paragraph ==
    /\ Departing("paragraph")
    /\ IF ~ParagraphInline(Parent)
       THEN DepartWith(end_state(states, stateindent, FALSE, DefaultEnd, None, max_line_width))
       ELSE Ascend /\ UNCHANGED <<bufv, pc>>
    /\ UNCHANGED <<wvars, avars, inputv, desc_count, missing, listv, diagv, flagv, tablev, body>>

\* ---- Text
visit_Text ==
    /\ Visiting("Text")
    /\ IF Cur.kind \in {"reference"} \cup ReferenceSubclasses THEN UNCHANGED states
       ELSE states' = add_text(states, IF in_literal
                                       THEN Replace(Child.text, "<", <<"\\", "<">>)
                                       ELSE Child.text)
    /\ Descend
    /\ UNCHANGED <<wvars, avars, inputv, desc_count, missing, pc, stateindent, listv, diagv, flagv, tablev, body>>

depart_Text ==
    /\ Departing("Text")
    /\ Ascend
    /\ UNCHANGED <<wvars, avars, inputv, desc_count, missing, pc, bufv, listv, diagv, flagv, tablev, body>>

\* ---- reference: attr says which of refuri and refid the node carries
\*      ("" for neither), text is its value
MissingTarget == "References must have \"refuri\" or \"refid\" attribute."

LinkText(ref_text, uri) == <<"[">> \o ref_text \o <<"]", "(">> \o uri \o <<")">>

\* visit_reference without the raise: the node is entered all the same
visit_reference_EntersWithoutTarget ==
    /\ Visiting("reference")
    /\ IF astextRaises(Child)
       THEN pc' = "raised" /\ UNCHANGED <<path, messages, reference_uri, missing, states>>
       ELSE LET ref_text == astext(Child) IN
       IF Child.attr \in {"refuri", "refid"}
       THEN LET uri == IF Child.attr = "refuri" THEN Child.text ELSE <<"#">> \o Child.text IN
            /\ reference_uri' = uri
            /\ missing' = missing \ {"reference_uri"}
            /\ states' = add_text(states, LinkText(ref_text, uri))
            /\ Descend
            /\ UNCHANGED <<messages, pc>>
       ELSE /\ messages' = Append(messages, MissingTarget)
            /\ Descend
            /\ UNCHANGED <<reference_uri, missing, states, pc>>
    /\ UNCHANGED <<wvars, avars, inputv, desc_count, stateindent, listv, warned, logged, in_literal,
                   sectionlevel, tablev, body>>

visit_reference ==
    /\ Visiting("reference")
    /\ IF astextRaises(Child)
       THEN pc' = "raised" /\ UNCHANGED <<path, messages, reference_uri, missing, states>>
       ELSE LET ref_text == astext(Child) IN
       IF Child.attr \in {"refuri", "refid"}
       THEN LET uri == IF Child.attr = "refuri" THEN Child.text ELSE <<"#">> \o Child.text IN
            /\ reference_uri' = uri
            /\ missing' = missing \ {"reference_uri"}
            /\ states' = add_text(states, LinkText(ref_text, uri))
            /\ Descend
            /\ UNCHANGED <<messages, pc>>
       ELSE /\ messages' = Append(messages, MissingTarget)
            /\ SkipNode
            /\ UNCHANGED <<reference_uri, missing, states, pc>>
    /\ UNCHANGED <<wvars, avars, inputv, desc_count, stateindent, listv, warned, logged, in_literal,
                   sectionlevel, tablev, body>>

depart_reference ==
    /\ Departing("reference")
    /\ reference_uri' = <<>>
    /\ missing' = missing \ {"reference_uri"}
    /\ Ascend
    /\ UNCHANGED <<wvars, avars, inputv, desc_count, pc, bufv, listv, diagv, in_literal, sectionlevel,
                   tablev, body>>

\* ---- emphasis
visit_emphasis ==
    /\ Visiting("emphasis")
    /\ states' = add_text(states, <<"<", "e", "m", ">">>)
    /\ Descend
    /\ UNCHANGED <<wvars, avars, inputv, desc_count, missing, pc, stateindent, listv, diagv, flagv, tablev, body>>

depart_emphasis ==
    /\ Departing("emphasis")
    /\ states' = add_text(states, <<"<", "/", "e", "m", ">">>)
    /\ Ascend
    /\ UNCHANGED <<wvars, avars, inputv, desc_count, missing, pc, stateindent, listv, diagv, flagv, tablev, body>>

\* return self.visit_emphasis(node)
visit_literal_emphasis ==
    /\ Visiting("literal_emphasis")
    /\ states' = add_text(states, <<"<", "e", "m", ">">>)
    /\ Descend
    /\ UNCHANGED <<wvars, avars, inputv, desc_count, missing, pc, stateindent, listv, diagv, flagv, tablev, body>>

\* return self.depart_emphasis(node)
depart_literal_emphasis ==
    /\ Departing("literal_emphasis")
    /\ states' = add_text(states, <<"<", "/", "e", "m", ">">>)
    /\ Ascend
    /\ UNCHANGED <<wvars, avars, inputv, desc_count, missing, pc, stateindent, listv, diagv, flagv, tablev, body>>

\* ---- strong
visit_strong ==
    /\ Visiting("strong")
    /\ states' = add_text(states, <<"<", "s", "t", "r", "o", "n", "g", ">">>)
    /\ Descend
    /\ UNCHANGED <<wvars, avars, inputv, desc_count, missing, pc, stateindent, listv, diagv, flagv, tablev, body>>

depart_strong ==
    /\ Departing("strong")
    /\ states' = add_text(states, <<"<", "/", "s", "t", "r", "o", "n", "g", ">">>)
    /\ Ascend
    /\ UNCHANGED <<wvars, avars, inputv, desc_count, missing, pc, stateindent, listv, diagv, flagv, tablev, body>>

\* return self.visit_strong(node)
visit_literal_strong ==
    /\ Visiting("literal_strong")
    /\ states' = add_text(states, <<"<", "s", "t", "r", "o", "n", "g", ">">>)
    /\ Descend
    /\ UNCHANGED <<wvars, avars, inputv, desc_count, missing, pc, stateindent, listv, diagv, flagv, tablev, body>>

\* return self.depart_strong(node)
depart_literal_strong ==
    /\ Departing("literal_strong")
    /\ states' = add_text(states, <<"<", "/", "s", "t", "r", "o", "n", "g", ">">>)
    /\ Ascend
    /\ UNCHANGED <<wvars, avars, inputv, desc_count, missing, pc, stateindent, listv, diagv, flagv, tablev, body>>

\* ---- title_reference
visit_title_reference ==
    /\ Visiting("title_reference")
    /\ states' = add_text(states, <<"x", "x", "x">>)
    /\ Descend
    /\ UNCHANGED <<wvars, avars, inputv, desc_count, missing, pc, stateindent, listv, diagv, flagv, tablev, body>>

depart_title_reference ==
    /\ Departing("title_reference")
    /\ states' = add_text(states, <<"x", "x", "x">>)
    /\ Ascend
    /\ UNCHANGED <<wvars, avars, inputv, desc_count, missing, pc, stateindent, listv, diagv, flagv, tablev, body>>

\* ---- desc_inline, desc_returns
visit_desc_inline ==
    /\ Visiting("desc_inline")
    /\ states' = add_text(states, <<"<", "s", "p", "a", "n", ">">>)
    /\ Descend
    /\ UNCHANGED <<wvars, avars, inputv, desc_count, missing, pc, stateindent, listv, diagv, flagv, tablev, body>>

depart_desc_inline ==
    /\ Departing("desc_inline")
    /\ states' = add_text(states, <<"<", "/", "s", "p", "a", "n", ">">>)
    /\ Ascend
    /\ UNCHANGED <<wvars, avars, inputv, desc_count, missing, pc, stateindent, listv, diagv, flagv, tablev, body>>

visit_desc_returns ==
    /\ Visiting("desc_returns")
    /\ states' = add_text(states, <<" ", "-", ">", " ">>)
    /\ Descend
    /\ UNCHANGED <<wvars, avars, inputv, desc_count, missing, pc, stateindent, listv, diagv, flagv, tablev, body>>

depart_desc_returns ==
    /\ Departing("desc_returns")
    /\ Ascend
    /\ UNCHANGED <<wvars, avars, inputv, desc_count, missing, pc, bufv, listv, diagv, flagv, tablev, body>>

\* ---- desc_content, field_body: containers in which an only-child paragraph
\* opens no buffer
visit_desc_content ==
    /\ Visiting("desc_content")
    /\ states' = add_text(Append(states, <<>>), <<"<", "d", "d", ">">>)
    /\ stateindent' = Append(stateindent, STDINDENT)
    /\ Descend
    /\ UNCHANGED <<wvars, avars, inputv, desc_count, missing, pc, listv, diagv, flagv, tablev, body>>

depart_desc_content ==
    /\ Departing("desc_content")
    /\ DepartWith(end_state(add_text(states, <<"<", "/", "d", "d", ">">>), stateindent, FALSE,
                            None, None, max_line_width))
    /\ UNCHANGED <<wvars, avars, inputv, desc_count, missing, listv, diagv, flagv, tablev, body>>

visit_field_body ==
    /\ Visiting("field_body")
    /\ Descend
    /\ UNCHANGED <<wvars, avars, inputv, desc_count, missing, pc, bufv, listv, diagv, flagv, tablev, body>>

depart_field_body ==
    /\ Departing("field_body")
    /\ Ascend
    /\ UNCHANGED <<wvars, avars, inputv, desc_count, missing, pc, bufv, listv, diagv, flagv, tablev, body>>

\* ---- topic, sidebar, rubric, field_list: blocks with a buffer of their own
visit_topic ==
    /\ Visiting("topic")
    /\ states' = Append(states, <<>>)
    /\ stateindent' = Append(stateindent, 0)
    /\ Descend
    /\ UNCHANGED <<wvars, avars, inputv, desc_count, missing, pc, listv, diagv, flagv, tablev, body>>

depart_topic ==
    /\ Departing("topic")
    /\ DepartWith(end_state(states, stateindent, FALSE, DefaultEnd, None, max_line_width))
    /\ UNCHANGED <<wvars, avars, inputv, desc_count, missing, listv, diagv, flagv, tablev, body>>

\* visit_sidebar = visit_topic
visit_sidebar ==
    /\ Visiting("sidebar")
    /\ states' = Append(states, <<>>)
    /\ stateindent' = Append(stateindent, 0)
    /\ Descend
    /\ UNCHANGED <<wvars, avars, inputv, desc_count, missing, pc, listv, diagv, flagv, tablev, body>>

\* depart_sidebar = depart_topic
depart_sidebar ==
    /\ Departing("sidebar")
    /\ DepartWith(end_state(states, stateindent, FALSE, DefaultEnd, None, max_line_width))
    /\ UNCHANGED <<wvars, avars, inputv, desc_count, missing, listv, diagv, flagv, tablev, body>>

visit_rubric ==
    /\ Visiting("rubric")
    /\ states' = Append(states, <<>>)
    /\ stateindent' = Append(stateindent, 0)
    /\ Descend
    /\ UNCHANGED <<wvars, avars, inputv, desc_count, missing, pc, listv, diagv, flagv, tablev, body>>

depart_rubric ==
    /\ Departing("rubric")
    /\ DepartWith(end_state(add_text(states, <<":">>), stateindent, TRUE, DefaultEnd, None,
                            max_line_width))
    /\ UNCHANGED <<wvars, avars, inputv, desc_count, missing, listv, diagv, flagv, tablev, body>>

visit_field_list ==
    /\ Visiting("field_list")
    /\ states' = Append(states, <<>>)
    /\ stateindent' = Append(stateindent, 0)
    /\ Descend
    /\ UNCHANGED <<wvars, avars, inputv, desc_count, missing, pc, listv, diagv, flagv, tablev, body>>

depart_field_list ==
    /\ Departing("field_list")
    /\ DepartWith(end_state(states, stateindent, FALSE, None, None, max_line_width))
    /\ UNCHANGED <<wvars, avars, inputv, desc_count, missing, listv, diagv, flagv, tablev, body>>

visit_field_name ==
    /\ Visiting("field_name")
    /\ Descend
    /\ UNCHANGED <<wvars, avars, inputv, desc_count, missing, pc, bufv, listv, diagv, flagv, tablev, body>>

depart_field_name ==
    /\ Departing("field_name")
    /\ states' = add_text(states, <<":", " ">>)
    /\ Ascend
    /\ UNCHANGED <<wvars, avars, inputv, desc_count, missing, pc, stateindent, listv, diagv, flagv, tablev, body>>

\* ---- desc, desc_signature: an object description and its signature
visit_desc ==
    /\ Visiting("desc")
    /\ desc_count' = desc_count + 1
    /\ states' = add_text(Append(states, <<>>), <<"<", "d", "l", ">">>)
    /\ stateindent' = Append(stateindent, 0)
    /\ Descend
    /\ UNCHANGED <<wvars, avars, inputv, missing, pc, listv, diagv, flagv, tablev, body>>

\* the counter is decremented after end_state: not when end_state raised
depart_desc ==
    /\ Departing("desc")
    /\ DepartWith(end_state(add_text(states, <<"<", "/", "d", "l", ">">>), stateindent, FALSE, None, None,
                            max_line_width))
    /\ desc_count' = IF pc' = "walk" THEN desc_count - 1 ELSE desc_count
    /\ UNCHANGED <<wvars, avars, inputv, missing, listv, diagv, flagv, tablev, body>>

visit_desc_signature ==
    /\ Visiting("desc_signature")
    /\ states' = add_text(Append(states, <<>>), <<"<", "d", "t", ">">>)
    /\ stateindent' = Append(stateindent, STDINDENT)
    /\ Descend
    /\ UNCHANGED <<wvars, avars, inputv, desc_count, missing, pc, listv, diagv, flagv, tablev, body>>

depart_desc_signature ==
    /\ Departing("desc_signature")
    /\ DepartWith(end_state(add_text(states, <<"<", "/", "d", "t", ">">>), stateindent, FALSE, None, None,
                            max_line_width))
    /\ UNCHANGED <<wvars, avars, inputv, desc_count, missing, listv, diagv, flagv, tablev, body>>

\* ---- the hooks whose body is `pass`: the node is entered and left and no
\* field changes
PassKinds ==
    {"attribution", "compound", "desc_addname", "desc_annotation", "desc_name",
     "desc_optional", "desc_parameter", "desc_sig_space", "desc_signature_line",
     "desc_type", "desc_type_parameter", "desc_type_parameterlist", "field", "glossary",
     "subtitle", "target"}

visit_PassKinds ==
    /\ HasNext /\ Child.kind \in PassKinds
    /\ Descend
    /\ UNCHANGED <<wvars, avars, inputv, desc_count, missing, pc, bufv, listv, diagv, flagv, tablev, body>>

depart_PassKinds ==
    /\ pc = "walk" /\ path # <<>> /\ Last(path).next > Len(Cur.kids)
    /\ Cur.kind \in PassKinds
    /\ Ascend
    /\ UNCHANGED <<wvars, avars, inputv, desc_count, missing, pc, bufv, listv, diagv, flagv, tablev, body>>

\* ---- the hooks whose body is `raise nodes.SkipNode`: visit_comment,
\* visit_index, visit_toctree, visit_desc_parameterlist
SkippedKinds == {"comment", "desc_parameterlist", "index", "toctree"}

visit_SkippedKinds ==
    /\ HasNext /\ HookOf(Child.kind) \in SkippedKinds
    /\ SkipNode
    /\ UNCHANGED <<wvars, avars, inputv, desc_count, missing, pc, bufv, listv, diagv, flagv, tablev, body>>

\* ---- flag: attr = "flag_type" when the node carries a flag_type, text is
\* its value; alt is the message, <<>> when the node has none
RECURSIVE WithoutColons(_)
\* message.replace(":::", "")
WithoutColons(t) ==
    IF t = <<>> THEN <<>>
    ELSE IF Len(t) >= 3 /\ SubSeq(t, 1, 3) = <<":", ":", ":">>
    THEN WithoutColons(SubSeq(t, 4, Len(t)))
    ELSE <<Head(t)>> \o WithoutColons(Tail(t))

\* set_flag
SetFlag(flag_type) ==
    IF flag_type = <<"d", "e", "p", "r", "e", "c", "a", "t", "e", "d">>
    THEN <<"w", "a", "r", "n", "i", "n", "g">>
    ELSE IF flag_type = <<"e", "x", "p", "e", "r", "i", "m", "e", "n", "t", "a", "l">>
    THEN <<"d", "a", "n", "g", "e", "r">>
    ELSE <<"i", "n", "f", "o">>

\* ":::" + set_flag + "[" + flag_type + "]\n"
FlagOpening(flag_type) ==
    <<":", ":", ":">> \o SetFlag(flag_type) \o <<"[">> \o flag_type \o <<"]", "\n">>

\* node.attributes["flag_type"] and node.attributes["message"] are read
\* before anything is written: a KeyError leaves the buffers alone
visit_flag ==
    /\ Visiting("flag")
    /\ IF Child.attr = "flag_type" /\ Child.alt # <<>>
       THEN /\ states' = add_text(add_text(Append(states, <<>>), FlagOpening(Child.text)),
                                  WithoutColons(Child.alt[1]) \o <<"\n">>)
            /\ stateindent' = Append(stateindent, STDINDENT)
            /\ Descend
            /\ UNCHANGED pc
       ELSE pc' = "raised" /\ UNCHANGED <<bufv, path>>
    /\ UNCHANGED <<wvars, avars, inputv, desc_count, missing, listv, diagv, flagv, tablev, body>>

depart_flag ==
    /\ Departing("flag")
    /\ DepartWith(end_state(add_text(states, <<"\n", ":", ":", ":", "\n">>), stateindent, FALSE,
                            DefaultEnd, None, max_line_width))
    /\ UNCHANGED <<wvars, avars, inputv, desc_count, missing, listv, diagv, flagv, tablev, body>>

\* ---- image: attr = "uri" when the node carries a uri, text is its value
\* "![" + node.get("alt", "") + "](" + node["uri"] + ")"
ImageText(node) ==
    <<"!", "[">> \o (IF node.alt = <<>> THEN <<>> ELSE node.alt[1]) \o <<"]", "(">>
        \o node.text \o <<")">>

visit_image ==
    /\ Visiting("image")
    /\ IF Child.attr = "uri"
       THEN states' = add_text(states, ImageText(Child)) /\ Descend /\ UNCHANGED pc
       ELSE pc' = "raised" /\ UNCHANGED <<states, path>>        \* KeyError: 'uri'
    /\ UNCHANGED <<wvars, avars, inputv, desc_count, missing, stateindent, listv, diagv, flagv, tablev, body>>

depart_image ==
    /\ Departing("image")
    /\ Ascend
    /\ UNCHANGED <<wvars, avars, inputv, desc_count, missing, pc, bufv, listv, diagv, flagv, tablev, body>>

\* ---- problematic: the text of the node in a fence, the node itself skipped
visit_problematic ==
    /\ Visiting("problematic")
    /\ IF astextRaises(Child)
       THEN pc' = "raised" /\ UNCHANGED <<path, states>>
       ELSE /\ states' = add_text(states, <<BackQuote, BackQuote, BackQuote, "\n">>
                                         \o astext(Child)
                                         \o <<"\n", BackQuote, BackQuote, BackQuote>>)
            /\ SkipNode
            /\ UNCHANGED pc
    /\ UNCHANGED <<wvars, avars, inputv, desc_count, missing, stateindent, listv, diagv, flagv, tablev, body>>

\* ---- log_visit, log_depart: utilities a caller hands a node or a string;
\* node_type is the class name of the node, or the string itself
LogText(what, node_type) ==
    <<"-", "-", "-", "-", "-", "-", "-", "-", "-">> \o what \o <<":", " ">> \o node_type

\* node.__class__.__name__, for the classes handed to the two utilities
ClassName(kind) ==
    IF kind = "note" THEN <<"n", "o", "t", "e">> ELSE <<"t", "i", "p">>

\* an argument is an Element (element = TRUE) or a string
NodeType(arg) == IF arg.element THEN ClassName(arg.node.kind) ELSE arg.str

MaxLogged == 2         \* calls of the two utilities on one translator

LogArgs ==
    {[element |-> TRUE, node |-> N(k, "", <<>>, 0, <<>>), str |-> <<>>] : k \in {"note", "tip"}}
    \cup {[element |-> FALSE, node |-> N("Text", "", <<>>, 0, <<>>), str |-> t] :
              t \in {<<>>, <<"x">>}}

\* called on a translator that is not walking a tree
log_visit ==
    /\ pc = "start"
    /\ Len(Last(states)) < MaxLogged
    /\ \E arg \in LogArgs :
          states' = add_text(states, LogText(<<"v", "i", "s", "i", "t">>, NodeType(arg)))
    /\ UNCHANGED <<wvars, avars, inputv, desc_count, missing, pc, path, stateindent, listv, diagv, flagv,
                   tablev, body>>

log_depart ==
    /\ pc = "start"
    /\ Len(Last(states)) < MaxLogged
    /\ \E arg \in LogArgs :
          states' = add_text(states, LogText(<<"d", "e", "p", "a", "r", "t">>, NodeType(arg)))
    /\ UNCHANGED <<wvars, avars, inputv, desc_count, missing, pc, path, stateindent, listv, diagv, flagv,
                   tablev, body>>

\* unknown_visit without the _warned set: every instance is logged
unknown_visit_LogsEveryInstance ==
    /\ HasNext
    /\ HookOf(Child.kind) = "unknown"
    /\ logged' = Append(logged, Child.kind)
    /\ warned' = warned \cup {Child.kind}
    /\ SkipNode
    /\ UNCHANGED <<wvars, avars, inputv, desc_count, missing, pc, bufv, listv, messages, flagv, tablev, body>>

\* ---- unknown_visit: a class without a visit_ method
unknown_visit ==
    /\ HasNext
    /\ HookOf(Child.kind) = "unknown"
    /\ IF Child.kind \notin warned
       THEN logged' = Append(logged, Child.kind) /\ warned' = warned \cup {Child.kind}
       ELSE UNCHANGED <<logged, warned>>
    /\ SkipNode
    /\ UNCHANGED <<wvars, avars, inputv, desc_count, missing, pc, bufv, listv, messages, flagv, tablev, body>>

\* ---- lists: list_counter holds -1 for a bullet list, -2 for a definition
\*      list and the number of the last item for an enumerated list
BULLET == -1
DEFLIST == -2

\* visit_bullet_list with new_state(0) in place of new_state(2)
visit_bullet_list_NoIndent ==
    /\ Visiting("bullet_list")
    /\ list_counter' = Append(list_counter, BULLET)
    /\ states' = Append(states, <<>>)
    /\ stateindent' = Append(stateindent, 0)
    /\ Descend
    /\ UNCHANGED <<wvars, avars, inputv, desc_count, missing, pc, classifier_count, diagv, flagv, tablev, body>>

visit_bullet_list ==
    /\ Visiting("bullet_list")
    /\ list_counter' = Append(list_counter, BULLET)
    /\ states' = Append(states, <<>>)
    /\ stateindent' = Append(stateindent, 2)
    /\ Descend
    /\ UNCHANGED <<wvars, avars, inputv, desc_count, missing, pc, classifier_count, diagv, flagv, tablev, body>>

depart_bullet_list ==
    /\ Departing("bullet_list")
    /\ list_counter' = Front(list_counter)
    /\ DepartWith(end_state(add_text(states, <<"\n">>), stateindent, FALSE, DefaultEnd,
                            None, max_line_width))
    /\ UNCHANGED <<wvars, avars, inputv, desc_count, missing, classifier_count, diagv, flagv, tablev, body>>

\* node.get("start", 1) - 1: attr = "start" when the node carries a start
EnumCounter(node) == (IF node.attr = "start" THEN node.num ELSE 1) - 1

visit_enumerated_list ==
    /\ Visiting("enumerated_list")
    /\ list_counter' = Append(list_counter, EnumCounter(Child))
    /\ Descend
    /\ UNCHANGED <<wvars, avars, inputv, desc_count, missing, pc, bufv, classifier_count, diagv, flagv, tablev, body>>

depart_enumerated_list ==
    /\ Departing("enumerated_list")
    /\ list_counter' = Front(list_counter)
    /\ Ascend
    /\ UNCHANGED <<wvars, avars, inputv, desc_count, missing, pc, bufv, classifier_count, diagv, flagv, tablev, body>>

\* self.list_counter[-1] of a list_item outside any list is an IndexError
visit_list_item ==
    /\ Visiting("list_item")
    /\ IF list_counter = <<>>
       THEN pc' = "raised" /\ UNCHANGED <<bufv, list_counter, path>>
       ELSE IF Last(list_counter) = BULLET
       THEN /\ states' = Append(states, <<>>)
            /\ stateindent' = Append(stateindent, 2)
            /\ Descend
            /\ UNCHANGED <<list_counter, pc>>
       ELSE IF Last(list_counter) = DEFLIST
       THEN Descend /\ UNCHANGED <<bufv, list_counter, pc>>
       ELSE /\ list_counter' = [list_counter EXCEPT ![Len(list_counter)] = @ + 1]
            /\ states' = Append(states, <<>>)
            /\ stateindent' = Append(stateindent, Len(Str(Last(list_counter) + 1)) + 2)
            /\ Descend
            /\ UNCHANGED pc
    /\ UNCHANGED <<wvars, avars, inputv, desc_count, missing, classifier_count, diagv, flagv, tablev, body>>

\* end_state(first="- ", wrap=False) and then self.states[-1].pop()
BulletItemEnd(sts, inds, mlw) ==
    LET r == end_state(sts, inds, FALSE, DefaultEnd, Some(<<"-", " ">>), mlw) IN
    IF r.status # "ok" THEN r
    ELSE IF Last(r.states) = <<>> THEN [r EXCEPT !.status = "raise"]
    ELSE [r EXCEPT !.states[Len(r.states)] = Front(@)]

\* end_state(first=f"{counter}. ", wrap=False, end=None)
EnumItemEnd(sts, inds, counter, mlw) ==
    end_state(sts, inds, FALSE, None, Some(Str(counter) \o <<".", " ">>), mlw)

depart_list_item ==
    /\ Departing("list_item")
    /\ IF list_counter = <<>>
       THEN pc' = "raised" /\ UNCHANGED <<bufv, path>>
       ELSE IF Last(list_counter) = BULLET
       THEN DepartWith(BulletItemEnd(states, stateindent, max_line_width))
       ELSE IF Last(list_counter) = DEFLIST
       THEN Ascend /\ UNCHANGED <<bufv, pc>>
       ELSE DepartWith(EnumItemEnd(states, stateindent, Last(list_counter), max_line_width))
    /\ UNCHANGED <<wvars, avars, inputv, desc_count, missing, listv, diagv, flagv, tablev, body>>

\* ---- definition lists
visit_definition_list ==
    /\ Visiting("definition_list")
    /\ list_counter' = Append(list_counter, DEFLIST)
    /\ Descend
    /\ UNCHANGED <<wvars, avars, inputv, desc_count, missing, pc, bufv, classifier_count, diagv, flagv, tablev, body>>

depart_definition_list ==
    /\ Departing("definition_list")
    /\ list_counter' = Front(list_counter)
    /\ Ascend
    /\ UNCHANGED <<wvars, avars, inputv, desc_count, missing, pc, bufv, classifier_count, diagv, flagv, tablev, body>>

visit_definition_list_item ==
    /\ Visiting("definition_list_item")
    /\ classifier_count' = CountKind(Child, "classifier")
    /\ missing' = missing \ {"_classifier_count_in_li"}
    /\ Descend
    /\ UNCHANGED <<wvars, avars, inputv, desc_count, pc, bufv, list_counter, diagv, flagv, tablev, body>>

depart_definition_list_item ==
    /\ Departing("definition_list_item")
    /\ Ascend
    /\ UNCHANGED <<wvars, avars, inputv, desc_count, missing, pc, bufv, listv, diagv, flagv, tablev, body>>

visit_term ==
    /\ Visiting("term")
    /\ states' = Append(states, <<>>)
    /\ stateindent' = Append(stateindent, 0)
    /\ Descend
    /\ UNCHANGED <<wvars, avars, inputv, desc_count, missing, pc, listv, diagv, flagv, tablev, body>>

depart_term ==
    /\ Departing("term")
    /\ IF "_classifier_count_in_li" \in missing
       THEN FieldError /\ UNCHANGED bufv
       ELSE IF classifier_count = 0
       THEN DepartWith(end_state(states, stateindent, TRUE, None, None, max_line_width))
       ELSE Ascend /\ UNCHANGED <<bufv, pc>>
    /\ UNCHANGED <<wvars, avars, inputv, desc_count, missing, listv, diagv, flagv, tablev, body>>

visit_classifier ==
    /\ Visiting("classifier")
    /\ states' = add_text(states, <<" ", ":", " ">>)
    /\ Descend
    /\ UNCHANGED <<wvars, avars, inputv, desc_count, missing, pc, stateindent, listv, diagv, flagv, tablev, body>>

depart_classifier ==
    /\ Departing("classifier")
    /\ IF "_classifier_count_in_li" \in missing
       THEN FieldError /\ UNCHANGED <<bufv, classifier_count>>
       ELSE /\ classifier_count' = classifier_count - 1
            /\ IF classifier_count - 1 = 0
               THEN DepartWith(end_state(states, stateindent, TRUE, None, None,
                                         max_line_width))
               ELSE Ascend /\ UNCHANGED <<bufv, pc>>
    /\ UNCHANGED <<wvars, avars, inputv, desc_count, missing, list_counter, diagv, flagv, tablev, body>>

visit_definition ==
    /\ Visiting("definition")
    /\ states' = Append(states, <<>>)
    /\ stateindent' = Append(stateindent, STDINDENT)
    /\ Descend
    /\ UNCHANGED <<wvars, avars, inputv, desc_count, missing, pc, listv, diagv, flagv, tablev, body>>

depart_definition ==
    /\ Departing("definition")
    /\ DepartWith(end_state(states, stateindent, TRUE, DefaultEnd, None, max_line_width))
    /\ UNCHANGED <<wvars, avars, inputv, desc_count, missing, listv, diagv, flagv, tablev, body>>

\* ---- tables
visit_table ==
    /\ Visiting("table")
    /\ states' = Append(states, <<>>)
    /\ stateindent' = Append(stateindent, 0)
    /\ row_objs' = row_objs \o <<<<>>, <<>>>>          \* two new empty lists
    /\ table_header' = Len(row_objs) + 1
    /\ table_body' = <<>>
    /\ current_row' = Len(row_objs) + 2
    /\ in_table_header' = FALSE
    /\ missing' = missing \ {"table_header", "table_body", "current_row", "in_table_header"}
    /\ Descend
    /\ UNCHANGED <<wvars, avars, inputv, desc_count, pc, listv, diagv, flagv, colwidths, colaligns, body>>

\* one cell of the separator row
Separator(align, width) ==
    IF align = "left" THEN <<":">> \o Repeat("-", width - 1)
    ELSE IF align = "right" THEN Repeat("-", width - 1) \o <<":">>
    ELSE IF align = "center" THEN <<":">> \o Repeat("-", width - 2) \o <<":">>
    ELSE Repeat("-", width)

Separators(widths, aligns) == [k \in 1..Len(widths) |-> Separator(aligns[k], widths[k])]

\* "| " + " | ".join(cells) + " |" + self.nl
RowLine(cells) == <<"|", " ">> \o Join(cells, <<" ", "|", " ">>) \o <<" ", "|", "\n">>

RECURSIVE AddRows(_, _, _)
\* for row in self.table_body: self.add_text(...)
AddRows(sts, rows, objs) ==
    IF rows = <<>> THEN sts
    ELSE AddRows(add_text(sts, RowLine(objs[Head(rows)])), Tail(rows), objs)

\* the texts depart_table adds before it ends its state
TableText(sts, header, rows, objs, widths, aligns) ==
    LET h == IF header # <<>>
             THEN add_text(add_text(sts, RowLine(header)),
                           RowLine(Separators(widths, aligns)))
             ELSE sts
    IN add_text(AddRows(h, rows, objs), <<"\n">>)

depart_table ==
    /\ Departing("table")
    /\ IF row_objs[table_header] # <<>> /\ "colwidths" \in missing
       THEN /\ states' = add_text(states, RowLine(row_objs[table_header]))
            /\ FieldError
            /\ UNCHANGED stateindent
       ELSE DepartWith(end_state(TableText(states, row_objs[table_header], table_body,
                                           row_objs, colwidths, colaligns),
                                 stateindent, FALSE, DefaultEnd, None, max_line_width))
    /\ UNCHANGED <<wvars, avars, inputv, desc_count, missing, listv, diagv, flagv, tablev, body>>

visit_thead ==
    /\ Visiting("thead")
    /\ in_table_header' = TRUE
    /\ missing' = missing \ {"in_table_header"}
    /\ Descend
    /\ UNCHANGED <<wvars, avars, inputv, desc_count, pc, bufv, listv, diagv, flagv, table_header, table_body,
                   current_row, row_objs, colwidths, colaligns, body>>

depart_thead ==
    /\ Departing("thead")
    /\ in_table_header' = FALSE
    /\ missing' = missing \ {"in_table_header"}
    /\ Ascend
    /\ UNCHANGED <<wvars, avars, inputv, desc_count, pc, bufv, listv, diagv, flagv, table_header, table_body,
                   current_row, row_objs, colwidths, colaligns, body>>

visit_tbody ==
    /\ Visiting("tbody")
    /\ Descend
    /\ UNCHANGED <<wvars, avars, inputv, desc_count, missing, pc, bufv, listv, diagv, flagv, tablev, body>>

depart_tbody ==
    /\ Departing("tbody")
    /\ Ascend
    /\ UNCHANGED <<wvars, avars, inputv, desc_count, missing, pc, bufv, listv, diagv, flagv, tablev, body>>

visit_tgroup ==
    /\ Visiting("tgroup")
    /\ colwidths' = <<>>
    /\ colaligns' = <<>>
    /\ missing' = missing \ {"colwidths", "colaligns"}
    /\ Descend
    /\ UNCHANGED <<wvars, avars, inputv, desc_count, pc, bufv, listv, diagv, flagv, table_header, table_body,
                   current_row, row_objs, in_table_header, body>>

depart_tgroup ==
    /\ Departing("tgroup")
    /\ Ascend
    /\ UNCHANGED <<wvars, avars, inputv, desc_count, missing, pc, bufv, listv, diagv, flagv, tablev, body>>

\* node.get("align", "left"): attr is the align attribute, "" when absent
ColAlign(node) == IF node.attr = "" THEN "left" ELSE node.attr

visit_colspec ==
    /\ Visiting("colspec")
    /\ IF "colwidths" \in missing
       THEN FieldError /\ UNCHANGED <<colwidths, colaligns>>
       ELSE /\ colwidths' = Append(colwidths, Child.num)
            /\ colaligns' = Append(colaligns, ColAlign(Child))
            /\ Descend
            /\ UNCHANGED pc
    /\ UNCHANGED <<wvars, avars, inputv, desc_count, missing, bufv, listv, diagv, flagv, table_header, table_body,
                   current_row, row_objs, in_table_header, body>>

depart_colspec ==
    /\ Departing("colspec")
    /\ Ascend
    /\ UNCHANGED <<wvars, avars, inputv, desc_count, missing, pc, bufv, listv, diagv, flagv, tablev, body>>

visit_row ==
    /\ Visiting("row")
    /\ row_objs' = Append(row_objs, <<>>)              \* a new empty list
    /\ current_row' = Len(row_objs) + 1
    /\ missing' = missing \ {"current_row"}
    /\ Descend
    /\ UNCHANGED <<wvars, avars, inputv, desc_count, pc, bufv, listv, diagv, flagv, table_header, table_body,
                   in_table_header, colwidths, colaligns, body>>

depart_row ==
    /\ Departing("row")
    /\ IF "in_table_header" \in missing
       THEN FieldError /\ UNCHANGED <<table_header, table_body, missing>>
       ELSE IF in_table_header
       THEN /\ table_header' = current_row
            /\ missing' = missing \ {"table_header"}
            /\ Ascend
            /\ UNCHANGED <<table_body, pc>>
       ELSE IF "table_body" \in missing
       THEN FieldError /\ UNCHANGED <<table_header, table_body, missing>>
       ELSE /\ table_body' = Append(table_body, current_row)
            /\ Ascend
            /\ UNCHANGED <<table_header, missing, pc>>
    /\ UNCHANGED <<wvars, avars, inputv, desc_count, bufv, listv, diagv, flagv, current_row, row_objs,
                   in_table_header, colwidths, colaligns, body>>

visit_entry ==
    /\ Visiting("entry")
    /\ states' = Append(states, <<>>)
    /\ stateindent' = Append(stateindent, 0)
    /\ Descend
    /\ UNCHANGED <<wvars, avars, inputv, desc_count, missing, pc, listv, diagv, flagv, tablev, body>>

\* the text depart_entry makes of the popped buffer
HasContent(e) == IF e.ind = -1 THEN e.text # <<>> ELSE e.lines # <<>>
EntryPiece(e) == IF e.ind = -1 THEN Strip(e.text) ELSE Strip(e.lines[1])

CellText(buffer) ==
    LET kept == SelectSeq(buffer, HasContent)
        text == Join([k \in 1..Len(kept) |-> EntryPiece(kept[k])], <<"\n">>)
    IN Replace(text, "\n", <<>>)

depart_entry ==
    /\ Departing("entry")
    /\ states' = Front(states)
    /\ IF "current_row" \in missing
       THEN FieldError /\ UNCHANGED <<row_objs, stateindent>>
       ELSE /\ row_objs' = [row_objs EXCEPT ![current_row] =
                                Append(@, CellText(Last(states)))]
            /\ stateindent' = Front(stateindent)
            /\ Ascend
            /\ UNCHANGED pc
    /\ UNCHANGED <<wvars, avars, inputv, desc_count, missing, listv, diagv, flagv, table_header, table_body,
                   current_row, in_table_header, colwidths, colaligns, body>>

\* ---- sections, titles and admonitions
visit_section ==
    /\ Visiting("section")
    /\ sectionlevel' = sectionlevel + 1
    /\ Descend
    /\ UNCHANGED <<wvars, avars, inputv, desc_count, missing, pc, bufv, listv, diagv, in_literal, reference_uri,
                   tablev, body>>

\* depart_section that leaves the counter as it is
depart_section_KeepsLevel ==
    /\ Departing("section")
    /\ Ascend
    /\ UNCHANGED <<wvars, avars, inputv, desc_count, missing, pc, bufv, listv, diagv, flagv, tablev, body>>

depart_section ==
    /\ Departing("section")
    /\ sectionlevel' = sectionlevel - 1
    /\ Ascend
    /\ UNCHANGED <<wvars, avars, inputv, desc_count, missing, pc, bufv, listv, diagv, in_literal, reference_uri,
                   tablev, body>>

\* the classes that derive from nodes.Admonition
AdmonitionKinds ==
    {"admonition", "attention", "caution", "danger", "desc", "error", "hint",
     "important", "note", "productionlist", "seealso", "tip", "todo_node",
     "versionmodified", "warning"}

visit_title ==
    /\ Visiting("title")
    /\ IF Cur.kind \in AdmonitionKinds /\ astextRaises(Child)
       THEN pc' = "raised" /\ UNCHANGED <<path, bufv>>
       ELSE IF Cur.kind \in AdmonitionKinds
       THEN /\ states' = add_text(states, astext(Child) \o <<":", " ">>)
            /\ SkipNode
            /\ UNCHANGED <<stateindent, pc>>
       ELSE /\ states' = Append(states, <<>>)
            /\ stateindent' = Append(stateindent, 0)
            /\ Descend
            /\ UNCHANGED pc
    /\ UNCHANGED <<wvars, avars, inputv, desc_count, missing, listv, diagv, flagv, tablev, body>>

\* prefix = "#" * (self.sectionlevel) + " "
TitlePrefix(level) == Repeat("#", level) \o <<" ">>

depart_title ==
    /\ Departing("title")
    /\ DepartWith(end_state(states, stateindent, TRUE, DefaultEnd,
                            Some(TitlePrefix(sectionlevel)), max_line_width))
    /\ UNCHANGED <<wvars, avars, inputv, desc_count, missing, listv, diagv, flagv, tablev, body>>

visit_admonition ==
    /\ Visiting("admonition")
    /\ states' = Append(states, <<>>)
    /\ stateindent' = Append(stateindent, 0)
    /\ Descend
    /\ UNCHANGED <<wvars, avars, inputv, desc_count, missing, pc, listv, diagv, flagv, tablev, body>>

depart_admonition ==
    /\ Departing("admonition")
    /\ DepartWith(end_state(states, stateindent, TRUE, DefaultEnd, None, max_line_width))
    /\ UNCHANGED <<wvars, avars, inputv, desc_count, missing, listv, diagv, flagv, tablev, body>>

\* the classes whose hooks are bound to _visit_admonition and
\* _depart_admonition
LabelledKinds ==
    {"attention", "caution", "danger", "error", "hint", "important", "note", "tip",
     "warning", "seealso"}

\* sphinx.locale.admonitionlabels[node.tagname]
AdmonitionLabel(kind) ==
    CASE kind = "attention" -> <<"A", "t", "t", "e", "n", "t", "i", "o", "n">>
      [] kind = "caution" -> <<"C", "a", "u", "t", "i", "o", "n">>
      [] kind = "danger" -> <<"D", "a", "n", "g", "e", "r">>
      [] kind = "error" -> <<"E", "r", "r", "o", "r">>
      [] kind = "hint" -> <<"H", "i", "n", "t">>
      [] kind = "important" -> <<"I", "m", "p", "o", "r", "t", "a", "n", "t">>
      [] kind = "note" -> <<"N", "o", "t", "e">>
      [] kind = "seealso" -> <<"S", "e", "e", " ", "a", "l", "s", "o">>
      [] kind = "tip" -> <<"T", "i", "p">>
      [] kind = "warning" -> <<"W", "a", "r", "n", "i", "n", "g">>

_visit_admonition ==
    /\ HasNext /\ Child.kind \in LabelledKinds
    /\ states' = Append(states, <<>>)
    /\ stateindent' = Append(stateindent, 2)
    /\ Descend
    /\ UNCHANGED <<wvars, avars, inputv, desc_count, missing, pc, listv, diagv, flagv, tablev, body>>

\* self.stateindent[-1] += len(label)
LabelIndent(inds, label) == [inds EXCEPT ![Len(inds)] = @ + Len(label)]

\* end_state(first=label + ": ") on the widened indentation
LabelledEnd(sts, inds, label, mlw) ==
    end_state(sts, LabelIndent(inds, label), TRUE, DefaultEnd, Some(label \o <<":", " ">>), mlw)

_depart_admonition ==
    /\ pc = "walk" /\ path # <<>> /\ Last(path).next > Len(Cur.kids)
    /\ Cur.kind \in LabelledKinds
    /\ DepartWith(LabelledEnd(states, stateindent, AdmonitionLabel(Cur.kind), max_line_width))
    /\ UNCHANGED <<wvars, avars, inputv, desc_count, missing, listv, diagv, flagv, tablev, body>>

\* ---- verbatim contexts: inline literal, inline node, literal block
visit_literal ==
    /\ Visiting("literal")
    /\ in_literal' = TRUE
    /\ states' = add_text(states, <<BackQuote>>)
    /\ Descend
    /\ UNCHANGED <<wvars, avars, inputv, desc_count, missing, pc, stateindent, listv, diagv, sectionlevel,
                   reference_uri, tablev, body>>

depart_literal ==
    /\ Departing("literal")
    /\ in_literal' = FALSE
    /\ states' = add_text(states, <<BackQuote>>)
    /\ Ascend
    /\ UNCHANGED <<wvars, avars, inputv, desc_count, missing, pc, stateindent, listv, diagv, sectionlevel,
                   reference_uri, tablev, body>>

visit_inline ==
    /\ Visiting("inline")
    /\ in_literal' = TRUE
    /\ states' = add_text(states, <<BackQuote>>)
    /\ Descend
    /\ UNCHANGED <<wvars, avars, inputv, desc_count, missing, pc, stateindent, listv, diagv, sectionlevel,
                   reference_uri, tablev, body>>

depart_inline ==
    /\ Departing("inline")
    /\ in_literal' = FALSE
    /\ states' = add_text(states, <<BackQuote>>)
    /\ Ascend
    /\ UNCHANGED <<wvars, avars, inputv, desc_count, missing, pc, stateindent, listv, diagv, sectionlevel,
                   reference_uri, tablev, body>>

\* node.get("language", "default"): attr = "language" when the node has one
LanguageOf(node) ==
    IF node.attr = "language" THEN node.text ELSE <<"d", "e", "f", "a", "u", "l", "t">>

Fence == <<BackQuote, BackQuote, BackQuote>>

visit_literal_block ==
    /\ Visiting("literal_block")
    /\ in_literal' = TRUE
    /\ states' = add_text(Append(states, <<>>), Fence \o LanguageOf(Child) \o <<"\n">>)
    /\ stateindent' = Append(stateindent, STDINDENT)
    /\ Descend
    /\ UNCHANGED <<wvars, avars, inputv, desc_count, missing, pc, listv, diagv, sectionlevel, reference_uri,
                   tablev, body>>

depart_literal_block ==
    /\ Departing("literal_block")
    /\ in_literal' = FALSE
    /\ DepartWith(end_state(states, stateindent, FALSE, <<Fence>>, None, max_line_width))
    /\ UNCHANGED <<wvars, avars, inputv, desc_count, missing, listv, diagv, sectionlevel, reference_uri,
                   tablev, body>>

\* ======================================================= the documents
T(t) == N("Text", "", t, 0, <<>>)
E(kind, kids) == N(kind, "", <<>>, 0, kids)
Para(t) == E("paragraph", <<T(t)>>)
Doc(kids) == E("document", kids)
SeqsOf(S, lo, hi) == UNION {[1..n -> S] : n \in lo..hi}

\* ---- bullet, enumerated and definition lists
MaxItems == 2          \* items of the outer list
MaxClassifiers == 2    \* classifiers of one definition-list item

ItemTexts == {<<"a">>, <<"b">>}
Item(kids) == E("list_item", kids)
Bullets(items) == E("bullet_list", items)
Enumerated(start, items) == N("enumerated_list", "start", <<>>, start, items)
EnumeratedDefault(items) == E("enumerated_list", items)

\* term, k classifiers, definition
DefItem(k, defkids) ==
    E("definition_list_item",
      <<E("term", <<T(<<"t">>)>>)>> \o [j \in 1..k |-> E("classifier", <<T(<<"k">>)>>)]
      \o <<E("definition", defkids)>>)
DefList(items) == E("definition_list", items)

InnerLists ==
    {Bullets(<<Item(<<Para(<<"c">>)>>)>>),
     Enumerated(5, <<Item(<<Para(<<"c">>)>>)>>),
     DefList(<<DefItem(0, <<Para(<<"c">>)>>)>>)}

ItemKids ==
    {<<>>} \cup {<<Para(t)>> : t \in ItemTexts}
    \cup {<<Para(<<"a">>), l>> : l \in InnerLists}
    \cup {<<l>> : l \in InnerLists}
    \cup {<<Para(<<"a">>), Para(<<"b">>)>>}

Items == {Item(k) : k \in ItemKids}
StartValues == {0, 3, 9}

ListDocs ==
    {Doc(<<Bullets(s)>>) : s \in SeqsOf(Items, 1, MaxItems)}
    \cup {Doc(<<EnumeratedDefault(s)>>) : s \in SeqsOf(Items, 1, MaxItems)}
    \cup {Doc(<<Enumerated(n, s)>>) : n \in StartValues, s \in SeqsOf(Items, 1, MaxItems)}

InnerDefLists == {DefList(<<DefItem(k, <<Para(<<"c">>)>>)>>) : k \in 0..MaxClassifiers}

DefKids ==
    {<<Para(<<"a">>)>>}
    \cup {<<Para(<<"a">>), l>> : l \in InnerDefLists}
    \cup {<<l>> : l \in InnerDefLists}

DefDocs ==
    {Doc(<<DefList(<<DefItem(k, d)>>)>>) : k \in 0..MaxClassifiers, d \in DefKids}
    \cup {Doc(<<DefList(<<DefItem(k, d), DefItem(k2, <<Para(<<"b">>)>>)>>)>>) :
             k \in 0..MaxClassifiers, d \in DefKids, k2 \in 0..MaxClassifiers}

\* no AirflowDefinitionsData is in use while the writer is exercised
AirflowIdle ==
    a_pc = "idle" /\ a_specs = <<>> /\ a_cache = <<>> /\ a_query = <<>> /\ a_result = {}

WrapperIdle ==
    /\ w_pc = "idle" /\ w_text = <<>> /\ w_width = 0 /\ w_chunks = <<>> /\ w_lines = <<>>

ListInit ==
    /\ WrapperIdle
    /\ AirflowIdle
    /\ TranslatorInit
    /\ tree \in ListDocs \cup DefDocs
    /\ max_line_width = DefaultLineWidth

ListNext ==
    \/ visit_document \/ depart_document
    \/ visit_paragraph \/ depart_paragraph
    \/ visit_Text \/ depart_Text
    \/ visit_bullet_list \/ depart_bullet_list
    \/ visit_enumerated_list \/ depart_enumerated_list
    \/ visit_list_item \/ depart_list_item
    \/ visit_definition_list \/ depart_definition_list
    \/ visit_definition_list_item \/ depart_definition_list_item
    \/ visit_term \/ depart_term
    \/ visit_classifier \/ depart_classifier
    \/ visit_definition \/ depart_definition

SpecList == ListInit /\ [][ListNext]_vars

\* ---- inline nodes, references and classes without a hook
MaxInline == 3         \* children of the paragraph
MaxUnknown == 5        \* instances of unregistered classes in one paragraph

Ref(attr, target, kids) == N("reference", attr, target, 0, kids)
Emph(t) == E("emphasis", <<T(t)>>)
Unknown(kind) == E(kind, <<T(<<"x">>)>>)
UnknownKinds == {"abbreviation", "subscript"}
\* a class without a hook of its own that derives from nodes.inline
SigName(t) == E("desc_sig_name", <<T(t)>>)

Inlines ==
    {T(<<"a">>), Emph(<<"b">>),
     Ref("refuri", <<"u">>, <<T(<<"c">>)>>),
     Ref("refid", <<"i">>, <<T(<<"c">>)>>),
     Ref("refuri", <<"u">>, <<Emph(<<"c">>)>>),
     Ref("", <<>>, <<T(<<"c">>)>>), SigName(<<"n">>)}
    \cup {Unknown(k) : k \in UnknownKinds}

InlineDocs ==
    {Doc(<<E("paragraph", s)>>) : s \in SeqsOf(Inlines, 1, MaxInline)}
    \cup {Doc(<<E("paragraph", s)>>) :
             s \in SeqsOf({Unknown(k) : k \in UnknownKinds}, 1, MaxUnknown)}
    \cup {Doc(<<E("paragraph", <<SigName(<<"n">>)>> \o s)>>) :
             s \in SeqsOf({Unknown(k) : k \in UnknownKinds}, MaxUnknown, MaxUnknown)}
    \cup {Doc(<<E("block_quote", <<Para(<<"a">>)>>), Para(<<"b">>),
               E("block_quote", <<Para(<<"a">>)>>)>>)}

InlineInit ==
    /\ WrapperIdle
    /\ AirflowIdle
    /\ TranslatorInit
    /\ tree \in InlineDocs
    /\ max_line_width = DefaultLineWidth

InlineNext ==
    \/ visit_document \/ depart_document
    \/ visit_paragraph \/ depart_paragraph
    \/ visit_Text \/ depart_Text
    \/ visit_reference \/ depart_reference
    \/ visit_emphasis \/ depart_emphasis
    \/ visit_inline \/ depart_inline
    \/ unknown_visit

SpecInline == InlineInit /\ [][InlineNext]_vars

\* ---- tables
MaxRows == 2           \* body rows of a table
ColCounts == {1, 2}

ColSpec(align, width) == N("colspec", align, <<>>, width, <<>>)
ColSpecs ==
    {ColSpec("", 3), ColSpec("left", 3), ColSpec("left", 1), ColSpec("right", 2),
     ColSpec("center", 3), ColSpec("justify", 2)}

Entry(kids) == E("entry", kids)
Row(cells) == E("row", cells)
HeadText(j) == <<<<"A">>, <<"B">>, <<"C">>>>[j]

\* a table nested in a cell: one column, no header, one row
NestedTable ==
    E("table", <<E("tgroup", <<ColSpec("", 2),
                              E("tbody", <<Row(<<Entry(<<Para(<<"y">>)>>)>>)>>)>>)>>)

RowKinds == {"ones", "mixed", "nested"}
BodyCell(kind, j) ==
    IF kind = "nested" /\ j = 1 THEN Entry(<<NestedTable>>)
    ELSE IF kind = "ones" \/ j % 2 = 1 THEN Entry(<<Para(<<"1">>)>>)
    ELSE Entry(<<Para(<<"2">>)>>)
BodyRow(kind, c) == Row([j \in 1..c |-> BodyCell(kind, j)])
HeadRow(c) == Row([j \in 1..c |-> Entry(<<Para(HeadText(j))>>)])

Table(specs, withHead, kinds) ==
    E("table",
      <<E("tgroup",
          specs
          \o (IF withHead THEN <<E("thead", <<HeadRow(Len(specs))>>)>> ELSE <<>>)
          \o <<E("tbody", [r \in 1..Len(kinds) |-> BodyRow(kinds[r], Len(specs))])>>)>>)

TableDocs ==
    {Doc(<<Table(specs, h, kinds)>>) :
        specs \in UNION {[1..c -> ColSpecs] : c \in ColCounts},
        h \in BOOLEAN,
        kinds \in SeqsOf(RowKinds, 1, MaxRows)}

TableInit ==
    /\ WrapperIdle
    /\ AirflowIdle
    /\ TranslatorInit
    /\ tree \in TableDocs
    /\ max_line_width = DefaultLineWidth

TableNext ==
    \/ visit_document \/ depart_document
    \/ visit_paragraph \/ depart_paragraph
    \/ visit_Text \/ depart_Text
    \/ visit_table \/ depart_table
    \/ visit_tgroup \/ depart_tgroup
    \/ visit_colspec \/ depart_colspec
    \/ visit_thead \/ depart_thead
    \/ visit_tbody \/ depart_tbody
    \/ visit_row \/ depart_row
    \/ visit_entry \/ depart_entry

SpecTable == TableInit /\ [][TableNext]_vars

\* ---- sections, titles and admonitions
MaxDepth == 2          \* sections nested in one another

Title(t) == E("title", <<T(t)>>)
Section(kids) == E("section", kids)
Admonition(kids) == E("admonition", kids)
TitleTexts == {<<"I", "n", "t", "r", "o">>, <<"WIDE", " ", "b">>}

\* what a section holds between its title and its subsections
Blocks == {Para(<<"p">>), Admonition(<<Title(<<"N">>), Para(<<"q">>)>>)}

RECURSIVE Sections(_)
\* the sections of nesting depth up to d: a title, at most one block, and no,
\* one or two subsections
Sections(d) ==
    IF d = 0 THEN {}
    ELSE {Section(<<Title(t)>> \o pre \o subs) :
             t \in TitleTexts,
             pre \in SeqsOf(Blocks, 0, 1),
             subs \in SeqsOf(Sections(d - 1), 0, 1)
                      \cup {<<s, s>> : s \in Sections(d - 1)}}

SectionDocs ==
    {Doc(<<s>>) : s \in Sections(MaxDepth)}
    \cup {Doc(<<Title(<<"D">>), s>>) : s \in Sections(MaxDepth)}

SectionInit ==
    /\ WrapperIdle
    /\ AirflowIdle
    /\ TranslatorInit
    /\ tree \in SectionDocs
    /\ max_line_width = DefaultLineWidth

SectionNext ==
    \/ visit_document \/ depart_document
    \/ visit_section \/ depart_section
    \/ visit_title \/ depart_title
    \/ visit_admonition \/ depart_admonition
    \/ visit_paragraph \/ depart_paragraph
    \/ visit_Text \/ depart_Text

SpecSection == SectionInit /\ [][SectionNext]_vars

\* ---- paragraphs under a configured line width
ParaChars == {"a", " ", "\n"}
ParaTexts == UNION {[1..n -> ParaChars] : n \in 0..MaxLen}
ConfiguredWidths == {0, 3, 5}          \* 0: max_line_width is not configured

ParaDocs ==
    {Doc(<<Para(t)>>) : t \in ParaTexts}
    \cup {Doc(<<DefList(<<DefItem(0, <<Para(t)>>)>>)>>) : t \in ParaTexts}

ParaInit ==
    /\ WrapperIdle
    /\ AirflowIdle
    /\ TranslatorInit
    /\ tree \in ParaDocs
    /\ \E configured \in ConfiguredWidths : max_line_width = LineWidthOf(configured)

ParaNext ==
    \/ visit_document \/ depart_document
    \/ visit_paragraph \/ depart_paragraph
    \/ visit_Text \/ depart_Text
    \/ visit_definition_list \/ depart_definition_list
    \/ visit_definition_list_item \/ depart_definition_list_item
    \/ visit_term \/ depart_term
    \/ visit_definition \/ depart_definition

SpecPara == ParaInit /\ [][ParaNext]_vars

\* ---- verbatim contexts
MaxNest == 2           \* verbatim nodes nested in one another

Lt == T(<<"x", "<", "y">>)
VerbatimKinds == {"literal", "inline"}

RECURSIVE Verbatims(_)
\* inline literals and inline nodes nested up to d deep, text before or
\* after the nested node
Verbatims(d) ==
    IF d = 0 THEN {}
    ELSE Verbatims(d - 1)
         \cup {E(k, kids) : k \in VerbatimKinds,
                  kids \in {<<Lt>>}
                           \cup {<<v>> : v \in Verbatims(d - 1)}
                           \cup {<<v, Lt>> : v \in Verbatims(d - 1)}
                           \cup {<<Lt, v>> : v \in Verbatims(d - 1)}}

LiteralBlock(kids) == E("literal_block", kids)
LiteralBlockIn(lang, kids) == N("literal_block", "language", lang, 0, kids)

VerbatimDocs ==
    {Doc(<<E("paragraph", <<Lt, v, Lt>>)>>) : v \in Verbatims(MaxNest)}
    \cup {Doc(<<LiteralBlock(<<Lt>>), Para(<<"<">>)>>),
          Doc(<<LiteralBlockIn(<<"p", "y">>, <<Lt>>), Para(<<"<">>)>>)}
    \cup {Doc(<<LiteralBlock(<<v, Lt>>)>>) : v \in Verbatims(1)}

VerbatimInit ==
    /\ WrapperIdle
    /\ AirflowIdle
    /\ TranslatorInit
    /\ tree \in VerbatimDocs
    /\ max_line_width = DefaultLineWidth

VerbatimNext ==
    \/ visit_document \/ depart_document
    \/ visit_paragraph \/ depart_paragraph
    \/ visit_Text \/ depart_Text
    \/ visit_literal \/ depart_literal
    \/ visit_inline \/ depart_inline
    \/ visit_literal_block \/ depart_literal_block

SpecVerbatim == VerbatimInit /\ [][VerbatimNext]_vars

\* ---- the contents of one table cell
MaxCellLen == 3        \* longest paragraph text of a cell

CellChars == {"a", " ", "\n"}
CellTexts == UNION {[1..n -> CellChars] : n \in 1..MaxCellLen}
CellKids ==
    {<<>>, <<T(<<"a">>)>>, <<T(<<"a", "\n", "b">>)>>}
    \cup {<<Para(t)>> : t \in CellTexts}
    \cup {<<Para(<<"a">>), Para(t)>> : t \in CellTexts}

\* one column, a header and one body row whose cell has the given children
CellTable(kids) ==
    E("table", <<E("tgroup", <<ColSpec("", 3),
                              E("thead", <<HeadRow(1)>>),
                              E("tbody", <<Row(<<Entry(kids)>>)>>)>>)>>)

CellDocs == {Doc(<<CellTable(kids)>>) : kids \in CellKids}

CellInit ==
    /\ WrapperIdle
    /\ AirflowIdle
    /\ TranslatorInit
    /\ tree \in CellDocs
    /\ max_line_width = DefaultLineWidth

SpecCell == CellInit /\ [][TableNext]_vars

\* ---- section titles and labelled admonitions under a configured width
MaxTitleLen == 4       \* longest title or admonition text

HeadingChars == {"a", " ", "WIDE"}
HeadingTexts == UNION {[1..n -> HeadingChars] : n \in 1..MaxTitleLen}
HeadingWidths == {0, 4, 9}             \* 0: max_line_width is not configured

HeadingDocs ==
    {Doc(<<Title(t)>>) : t \in HeadingTexts}
    \cup {Doc(<<Section(<<Title(t)>>)>>) : t \in HeadingTexts}
    \cup {Doc(<<Section(<<Title(<<"a">>), Section(<<Title(t)>>)>>)>>) : t \in HeadingTexts}
    \cup {Doc(<<E(k, <<T(t)>>)>>) : k \in LabelledKinds, t \in HeadingTexts}
    \cup {Doc(<<E(k, <<Para(t)>>)>>) : k \in LabelledKinds, t \in HeadingTexts}

HeadingInit ==
    /\ WrapperIdle
    /\ AirflowIdle
    /\ TranslatorInit
    /\ tree \in HeadingDocs
    /\ \E configured \in HeadingWidths : max_line_width = LineWidthOf(configured)

HeadingNext ==
    \/ visit_document \/ depart_document
    \/ visit_section \/ depart_section
    \/ visit_title \/ depart_title
    \/ _visit_admonition \/ _depart_admonition
    \/ visit_paragraph \/ depart_paragraph
    \/ visit_Text \/ depart_Text

SpecHeading == HeadingInit /\ [][HeadingNext]_vars

\* ---- inline markup: the classes that only add text around their children
MaxMarkup == 2         \* children of the paragraph

MarkupKinds ==
    {"emphasis", "literal_emphasis", "strong", "literal_strong", "title_reference",
     "desc_inline", "desc_returns", "problematic"}

\* alt = <<>> for an image without alt; uri = <<>> for one without uri
Image(alt, uri) ==
    [N("image", IF uri = <<>> THEN "" ELSE "uri", IF uri = <<>> THEN <<>> ELSE uri[1],
       0, <<>>) EXCEPT !.alt = alt]

Markups ==
    {T(<<"a">>)}
    \cup {E(k, <<T(<<"x">>)>>) : k \in MarkupKinds}
    \cup {E("strong", <<E("emphasis", <<T(<<"x">>)>>)>>),
          E("problematic", <<T(<<"x">>), T(<<"<">>)>>)}
    \cup {Image(alt, uri) : alt \in {<<>>, <<<<"A">>>>}, uri \in {<<>>, <<<<"u">>>>}}

MarkupDocs ==
    {Doc(<<E("paragraph", s)>>) : s \in SeqsOf(Markups, 1, MaxMarkup)}
    \cup {Doc(<<E(k, s)>>) : k \in {"desc_content", "field_body"},
                             s \in SeqsOf({Para(<<"a">>), Para(<<"b", "\n", "c">>)}, 0, 2)}

MarkupInit ==
    /\ WrapperIdle
    /\ AirflowIdle
    /\ TranslatorInit
    /\ tree \in MarkupDocs
    /\ max_line_width = DefaultLineWidth

MarkupNext ==
    \/ visit_document \/ depart_document
    \/ visit_paragraph \/ depart_paragraph
    \/ visit_Text \/ depart_Text
    \/ visit_emphasis \/ depart_emphasis
    \/ visit_literal_emphasis \/ depart_literal_emphasis
    \/ visit_strong \/ depart_strong
    \/ visit_literal_strong \/ depart_literal_strong
    \/ visit_title_reference \/ depart_title_reference
    \/ visit_desc_inline \/ depart_desc_inline
    \/ visit_desc_returns \/ depart_desc_returns
    \/ visit_image \/ depart_image
    \/ visit_problematic
    \/ visit_desc_content \/ depart_desc_content
    \/ visit_field_body \/ depart_field_body

SpecMarkup == MarkupInit /\ [][MarkupNext]_vars

\* ---- the two logging utilities, called on a fresh translator
\* and the translator then walked over a document
LogDocs == {Doc(<<>>), Doc(<<Para(<<"a">>)>>), Doc(<<Para(<<"a">>), Para(<<"b", " ", "c">>)>>)}

LogInit ==
    /\ WrapperIdle
    /\ AirflowIdle
    /\ TranslatorInit
    /\ tree \in LogDocs
    /\ max_line_width = DefaultLineWidth

LogNext ==
    \/ log_visit \/ log_depart
    \/ visit_document \/ depart_document
    \/ visit_paragraph \/ depart_paragraph
    \/ visit_Text \/ depart_Text

SpecLog == LogInit /\ [][LogNext]_vars

\* ---- topics, rubrics, field lists, object descriptions, flags and the
\* nodes whose hooks do nothing
Flag(flag_type, message, kids) ==
    [N("flag", IF flag_type = <<>> THEN "" ELSE "flag_type",
       IF flag_type = <<>> THEN <<>> ELSE flag_type[1], 0, kids) EXCEPT !.alt = message]

FlagTypes ==
    {<<>>, <<<<"d", "e", "p", "r", "e", "c", "a", "t", "e", "d">>>>,
     <<<<"e", "x", "p", "e", "r", "i", "m", "e", "n", "t", "a", "l">>>>,
     <<<<"p", "r", "e", "v", "i", "e", "w">>>>}

FlagMessages ==
    {<<>>, <<<<"m">>>>, <<<<":", ":", ":", "m">>>>, <<<<":", ":", ":", ":", "m", ":", ":">>>>,
     <<<<":", ":", "a", ":", ":", ":", ":", ":", ":", ":">>>>}

BlockTexts == {<<"a">>, <<"a", " ", "b">>, <<"a", "\n", "b">>}

Field(name, b) ==
    E("field", <<E("field_name", <<T(name)>>), E("field_body", <<Para(b)>>)>>)

Desc(name, b) ==
    E("desc", <<E("desc_signature",
                  <<E("desc_name", <<T(name)>>),
                    E("desc_parameterlist", <<E("desc_parameter", <<T(<<"p">>)>>)>>),
                    E("desc_returns", <<T(<<"r">>)>>)>>),
                E("desc_content", <<Para(b)>>)>>)

BlockDocs ==
    {Doc(<<E(k, <<Para(t)>>)>>) : k \in {"topic", "sidebar", "field_list", "desc"},
                                  t \in BlockTexts}
    \cup {Doc(<<E("rubric", <<T(t)>>)>>) : t \in BlockTexts}
    \cup {Doc(<<E("field_name", <<T(t)>>)>>) : t \in BlockTexts}
    \cup {Doc(<<E("field_list", <<Field(<<"n">>, t)>>)>>) : t \in BlockTexts}
    \cup {Doc(<<E("field_list", <<Field(<<"n">>, t), Field(<<"o">>, <<"c">>)>>)>>) :
              t \in BlockTexts}
    \cup {Doc(<<Desc(<<"f">>, t)>>) : t \in BlockTexts}
    \cup {Doc(<<E("desc", <<Desc(<<"f">>, <<"a">>)>>)>>),
          Doc(<<E("desc_signature", <<T(<<"f">>)>>)>>)}
    \cup {Doc(<<Flag(ft, m, <<>>)>>) : ft \in FlagTypes, m \in FlagMessages}
    \cup {Doc(<<Flag(ft, <<<<"m">>>>, <<Para(t)>>)>>) : ft \in FlagTypes, t \in BlockTexts}
    \cup {Doc(<<E(k, <<T(<<"x">>)>>), Para(<<"a">>)>>) : k \in PassKinds \cup SkippedKinds}
    \cup {Doc(<<E(k, <<Para(<<"x">>)>>)>>) : k \in {"compound", "glossary", "field"}}

BlockInit ==
    /\ WrapperIdle
    /\ AirflowIdle
    /\ TranslatorInit
    /\ tree \in BlockDocs
    /\ max_line_width \in {DefaultLineWidth, 4}

BlockNext ==
    \/ visit_document \/ depart_document
    \/ visit_paragraph \/ depart_paragraph
    \/ visit_Text \/ depart_Text
    \/ visit_topic \/ depart_topic
    \/ visit_sidebar \/ depart_sidebar
    \/ visit_rubric \/ depart_rubric
    \/ visit_field_list \/ depart_field_list
    \/ visit_field_name \/ depart_field_name
    \/ visit_field_body \/ depart_field_body
    \/ visit_desc \/ depart_desc
    \/ visit_desc_signature \/ depart_desc_signature
    \/ visit_desc_content \/ depart_desc_content
    \/ visit_desc_returns \/ depart_desc_returns
    \/ visit_flag \/ depart_flag
    \/ visit_PassKinds \/ depart_PassKinds
    \/ visit_SkippedKinds

SpecBlock == BlockInit /\ [][BlockNext]_vars

\* ---- every hook of the translator
WalkNext ==
    \/ ListNext \/ InlineNext \/ TableNext \/ SectionNext \/ VerbatimNext
    \/ HeadingNext \/ MarkupNext \/ BlockNext

\* ---- list and table parts outside the list or table that sets their fields
StrayDocs ==
    {Doc(<<E("term", <<T(<<"a">>)>>)>>),
     Doc(<<E("classifier", <<T(<<"a">>)>>)>>),
     Doc(<<ColSpec("", 3)>>),
     Doc(<<Entry(<<Para(<<"a">>)>>)>>),
     Doc(<<Row(<<>>)>>),
     Doc(<<Row(<<Entry(<<Para(<<"a">>)>>)>>)>>),
     Doc(<<E("thead", <<Row(<<>>)>>)>>),
     Doc(<<E("thead", <<HeadRow(1)>>), Row(<<>>)>>),
     Doc(<<E("tgroup", <<ColSpec("", 3)>>), Para(<<"a">>)>>),
     Doc(<<E("table", <<E("thead", <<HeadRow(1)>>)>>)>>),
     Doc(<<E("table", <<E("tbody", <<Row(<<Entry(<<Para(<<"a">>)>>)>>)>>)>>)>>),
     Doc(<<Table(<<ColSpec("", 3)>>, TRUE, <<"ones">>),
           E("table", <<E("thead", <<HeadRow(1)>>)>>)>>),
     Doc(<<DefList(<<DefItem(1, <<Para(<<"c">>)>>)>>), E("term", <<T(<<"a">>)>>)>>),
     Doc(<<DefList(<<DefItem(0, <<Para(<<"c">>)>>)>>), E("classifier", <<T(<<"a">>)>>)>>),
     Doc(<<E("list_item", <<>>)>>),
     Doc(<<E("list_item", <<Para(<<"a">>)>>)>>),
     Doc(<<Para(<<"x">>), E("list_item", <<Para(<<"a">>)>>)>>),
     Doc(<<E("bullet_list", <<E("list_item", <<Para(<<"a">>)>>)>>),
           E("list_item", <<Para(<<"b">>)>>)>>),
     Doc(<<E("enumerated_list", <<E("list_item", <<Para(<<"a">>)>>)>>),
           E("list_item", <<Para(<<"b">>)>>)>>)}

StrayInit ==
    /\ WrapperIdle
    /\ AirflowIdle
    /\ TranslatorInit
    /\ tree \in StrayDocs
    /\ max_line_width = DefaultLineWidth

StrayNext == ListNext \/ TableNext

SpecStray == StrayInit /\ [][StrayNext]_vars

\* no translation runs while the wrapper is exercised on its own
TranslatorIdle ==
    /\ pc = "idle" /\ tree = Doc(<<>>) /\ path = <<>> /\ max_line_width = DefaultLineWidth
    /\ states = <<<<>>>> /\ stateindent = <<0>> /\ list_counter = <<>>
    /\ classifier_count = 0 /\ messages = <<>> /\ warned = {} /\ logged = <<>>
    /\ in_literal = FALSE /\ sectionlevel = 0 /\ reference_uri = <<>>
    /\ table_header = 0 /\ table_body = <<>> /\ current_row = 0 /\ row_objs = <<>>
    /\ in_table_header = FALSE /\ colwidths = <<>> /\ colaligns = <<>> /\ body = <<>>
    /\ missing = LateFields /\ desc_count = 0

\* ------------------------------------------------- the wrapper as a machine
WrapChars == {"a", " ", "-", "WIDE"}

Texts == UNION {[1..n -> WrapChars] : n \in 0..MaxLen}

WrapInit ==
    /\ TranslatorIdle
    /\ AirflowIdle
    /\ w_pc = "call"
    /\ w_text \in Texts
    /\ w_width \in (-1)..MaxWidth
    /\ w_chunks = <<>>
    /\ w_lines = <<>>

wrap_call_RejectsNegativeOnly ==
    /\ w_pc = "call"
    /\ w_lines' = <<>>
    /\ IF w_width < 0
       THEN w_pc' = "raised" /\ w_chunks' = <<>>
       ELSE w_pc' = "loop" /\ w_chunks' = Split(Munge(w_text))
    /\ UNCHANGED <<w_text, w_width, tvars, avars>>

\* wrap(): _split_chunks, then _wrap_chunks up to its width check
wrap_call ==
    /\ w_pc = "call"
    /\ w_lines' = <<>>
    /\ IF w_width <= 0
       THEN w_pc' = "raised" /\ w_chunks' = <<>>
       ELSE w_pc' = "loop" /\ w_chunks' = Split(Munge(w_text))
    /\ UNCHANGED <<w_text, w_width, tvars, avars>>

\* one pass of `while chunks:`
wrap_iteration ==
    /\ w_pc = "loop"
    /\ w_chunks # <<>>
    /\ LET n == WrapIteration(w_chunks, w_lines, w_width)
       IN w_chunks' = n.chunks /\ w_lines' = n.lines
    /\ UNCHANGED <<w_pc, w_text, w_width, tvars, avars>>

\* `return lines`
wrap_return ==
    /\ w_pc = "loop"
    /\ w_chunks = <<>>
    /\ w_pc' = "done"
    /\ UNCHANGED <<w_text, w_width, w_chunks, w_lines, tvars, avars>>

WrapNext == wrap_call \/ wrap_iteration \/ wrap_return

SpecWrap == WrapInit /\ [][WrapNext]_vars

\* ============================================== AirflowDefinitionsData
\* An asset spec is its key and its task mapping: whether it carries one
\* and the task handles the mapping names.
MaxSpecs == 2          \* asset specs of the mapped definitions

DagIds == {"d1", "d2"}
TaskIds == {"t1", "t2"}
TaskHandle(dag_id, task_id) == <<dag_id, task_id>>
TaskHandles == {TaskHandle(d, t) : d \in DagIds, t \in TaskIds}
AssetKeys == {"k1", "k2"}

AssetSpec(key, mapped, handles) == [key |-> key, task_mapped |-> mapped, handles |-> handles]
AssetSpecs ==
    {AssetSpec(k, FALSE, {}) : k \in AssetKeys}
    \cup {AssetSpec(k, TRUE, hs) : k \in AssetKeys,
             hs \in {h \in SUBSET TaskHandles : Cardinality(h) <= 2}}

is_task_mapped_asset_spec(spec) == spec.task_mapped
task_handles_for_spec(spec) == spec.handles

\* defaultdict(set): the value under a key, the empty set when it is absent
Lookup(map, handle) == IF handle \in DOMAIN map THEN map[handle] ELSE {}

\* a lookup leaves an absent key behind with the empty set
Touched(map, handle) ==
    [h \in DOMAIN map \cup {handle} |-> Lookup(map, h)]

AddKey_Overwrites(map, handles, key) ==
    [h \in DOMAIN map \cup handles |-> IF h \in handles THEN {key} ELSE Lookup(map, h)]

\* asset_keys_per_handle[task_handle].add(spec.key) for every handle of a spec
AddKey(map, handles, key) ==
    [h \in DOMAIN map \cup handles |->
        IF h \in handles THEN Lookup(map, h) \cup {key} ELSE Lookup(map, h)]

RECURSIVE mapped_asset_keys_by_task_handle(_, _)
\* the loop over get_all_asset_specs(), from the map built so far
mapped_asset_keys_by_task_handle(specs, map) ==
    IF specs = <<>> THEN map
    ELSE mapped_asset_keys_by_task_handle(
             Tail(specs),
             IF is_task_mapped_asset_spec(Head(specs))
             THEN AddKey(map, task_handles_for_spec(Head(specs)), Head(specs).key)
             ELSE map)

\* the cached property: computed at its first use, kept afterwards
Cached(cache, specs) ==
    IF cache = <<>> THEN mapped_asset_keys_by_task_handle(specs, <<>>) ELSE cache[1]

AirflowInit ==
    /\ WrapperIdle
    /\ TranslatorIdle
    /\ a_pc = "ready"
    /\ a_specs \in SeqsOf(AssetSpecs, 0, MaxSpecs)
    /\ a_cache = <<>>
    /\ a_query = <<>>
    /\ a_result = {}

asset_keys_in_task ==
    /\ a_pc \in {"ready", "returned"}
    /\ \E dag_id \in DagIds, task_id \in TaskIds :
          /\ a_query' = TaskHandle(dag_id, task_id)
          /\ a_result' = Lookup(Cached(a_cache, a_specs), TaskHandle(dag_id, task_id))
          /\ a_cache' = <<Touched(Cached(a_cache, a_specs), TaskHandle(dag_id, task_id))>>
    /\ a_pc' = "returned"
    /\ UNCHANGED <<a_specs, wvars, tvars>>

AirflowNext == asset_keys_in_task

SpecAirflow == AirflowInit /\ [][AirflowNext]_vars

\* ------------------------------------------------------ wrapper properties
TokensOf(text) == {Split(Munge(text))[i] : i \in 1..Len(Split(Munge(text)))}

\* C1: for every text and every width w > 0, every line the wrapper has
\* produced has display width at most w, unless the line is one single
\* token of the text whose own width exceeds w.
C1_WidthBound ==
    (w_pc \in {"loop", "done"} /\ w_width > 0) =>
        \A i \in 1..Len(w_lines) :
            \/ column_width(w_lines[i]) <= w_width
            \/ (w_lines[i] \in TokensOf(w_text) /\ column_width(w_lines[i]) > w_width)

\* a finished run in which a token wider than the width was broken and
\* some line fills the width exactly
C1_Witness ==
    /\ w_pc = "done"
    /\ \E t \in TokensOf(w_text) : ~IsBlank(t) /\ column_width(t) > w_width
    /\ \E i \in 1..Len(w_lines) : column_width(w_lines[i]) = w_width
    /\ \E i \in 1..Len(w_lines) : "WIDE" \in {w_lines[i][j] : j \in 1..Len(w_lines[i])}

\* C2: with width <= 0 the call raises for every text, the empty text
\* included, and no line is returned.
C2_FatalWidth ==
    (w_width <= 0 /\ w_pc # "call") => (w_pc = "raised" /\ w_lines = <<>>)

\* the empty text at width 0 has raised
C2_Witness == w_pc = "raised" /\ w_width = 0 /\ w_text = <<>>

\* --------------------------------------------------- translator properties
\* the node opened at depth k of the path
Open(k) == NodeAt(tree, Indices(SubSeq(path, 1, k)))

\* a departure hook is the next step of the walk
ExitStep == pc = "walk" /\ path # <<>> /\ Last(path).next > Len(Cur.kids)

\* C3: between document entry and document exit the buffer stack keeps its
\* first buffer, and the exit hook of every node leaves the stack as deep as it
\* was before the node's enter hook, the document included, after whose exit
\* only the initial buffer is left. A term and its classifiers share one
\* buffer, closed by whichever of them exits last, so they are balanced at
\* the exit of their definition-list item and are not compared one by one.
C3_StackBalanced ==
    [][/\ pc' = "walk" => Len(states') >= 1
       /\ (ExitStep /\ pc' \in {"walk", "done"} /\ Cur.kind \notin {"term", "classifier"})
              => Len(states') = Last(path).d0]_vars

\* the start value of an enumerated list: node.get("start", 1)
StartOf(node) == IF node.attr = "start" THEN node.num ELSE 1

IsPrefix(p, s) == Len(p) <= Len(s) /\ SubSeq(s, 1, Len(p)) = p

\* the first line a departure hook has folded into the enclosing buffer
FoldedLine == states'[Len(states')][Len(states[Len(states) - 1]) + 1].lines[1]

\* C4: the exit of the i-th item of an enumerated list that starts at n
\* folds into the enclosing buffer a first line that begins with the marker
\* "n+i-1. ", whatever lists the item holds (items with content).
C4_Markers ==
    [][(/\ Departing("list_item")
        /\ Parent.kind = "enumerated_list"
        /\ Cur.kids # <<>>
        /\ pc' = "walk")
           => /\ Len(states'[Len(states')]) > Len(states[Len(states) - 1])
              /\ IsPrefix(Str(StartOf(Parent) + Last(path).i - 1) \o <<".", " ">>,
                          FoldedLine)]_vars

\* the document is one bullet list whose items each hold one paragraph of
\* one line
SimpleBulletDoc ==
    /\ Len(tree.kids) = 1
    /\ tree.kids[1].kind = "bullet_list"
    /\ \A i \in 1..Len(tree.kids[1].kids) :
          /\ Len(tree.kids[1].kids[i].kids) = 1
          /\ tree.kids[1].kids[i].kids[1].kind = "paragraph"
          /\ "\n" \notin {astext(tree.kids[1].kids[i])[j] :
                            j \in 1..Len(astext(tree.kids[1].kids[i]))}

ItemLines(prefix) ==
    [i \in 1..Len(tree.kids[1].kids) |-> prefix \o astext(tree.kids[1].kids[i])]

\* the lines of a text that are not empty, in order
NonEmptyLines(text) == SelectSeq(SplitOn(text, "\n"), LAMBDA l : l # <<>>)

\* C5 (as the code has it): such a list yields, in document order, the k
\* lines "- t1" .. "- tk", each behind two spaces of indentation, and two
\* empty lines after them.
C5_BulletLines ==
    (pc = "done" /\ SimpleBulletDoc) =>
        body = Join(ItemLines(<<" ", " ", "-", " ">>) \o <<<<>>, <<>>>>, <<"\n">>)

\* C5 (as the claim has it): the lines are "- t1" .. "- tk" at indentation 0.
C5_AtIndentZero ==
    (pc = "done" /\ SimpleBulletDoc) =>
        NonEmptyLines(body) = ItemLines(<<"-", " ">>)

\* a translated list of the two items "a" and "b"
C5_Witness ==
    /\ pc = "done"
    /\ SimpleBulletDoc
    /\ ItemLines(<<>>) = <<<<"a">>, <<"b">>>>

\* the parts of a table node
GroupOf(table) == table.kids[1]
SpecsOf(table) == SelectSeq(GroupOf(table).kids, LAMBDA n : n.kind = "colspec")
HeadsOf(table) == SelectSeq(GroupOf(table).kids, LAMBDA n : n.kind = "thead")
BodyRowsOf(table) == Last(GroupOf(table).kids).kids
CellsOf(row) == [j \in 1..Len(row.kids) |-> astext(row.kids[j])]
LineOf(cells) == <<"|", " ">> \o Join(cells, <<" ", "|", " ">>) \o <<" ", "|">>

\* the document is one table with a header row and left-aligned columns (by
\* attribute or by default)
LeftTableDoc ==
    /\ Len(tree.kids) = 1
    /\ tree.kids[1].kind = "table"
    /\ Len(HeadsOf(tree.kids[1])) = 1
    /\ \A j \in 1..Len(SpecsOf(tree.kids[1])) : ColAlign(SpecsOf(tree.kids[1])[j]) = "left"

\* the lines of such a table, given how a separator cell of width w reads
TableLines(table, sep(_)) ==
    <<LineOf(CellsOf(HeadsOf(table)[1].kids[1])),
      LineOf([j \in 1..Len(SpecsOf(table)) |-> sep(SpecsOf(table)[j].num)])>>
    \o [r \in 1..Len(BodyRowsOf(table)) |-> LineOf(CellsOf(BodyRowsOf(table)[r]))]

Dashes(w) == Repeat("-", w)

\* C6: the lines of a table with one header row and left-aligned columns
\* are the header row, a separator row whose cell for a column of width w is
\* exactly w dashes, and one line per body row in order.
C6_PlainDashes ==
    (pc = "done" /\ LeftTableDoc) =>
        NonEmptyLines(body) = TableLines(tree.kids[1], Dashes)

\* C7: when a table is about to be emitted, it has as many accumulated body
\* rows as the table node has body rows, and its header row (when the node
\* has one), its separator row and every body row have as many cells as the
\* table node has column specs.
C7_TableShape ==
    Departing("table") =>
        /\ Len(table_body) = Len(BodyRowsOf(Cur))
        /\ \A r \in 1..Len(table_body) :
              Len(row_objs[table_body[r]]) = Len(SpecsOf(Cur))
        /\ Len(colwidths) = Len(SpecsOf(Cur))
        /\ HeadsOf(Cur) # <<>> => Len(row_objs[table_header]) = Len(SpecsOf(Cur))

RECURSIVE UnknownReached(_)
RECURSIVE UnknownReachedAll(_)
\* the kinds the walk comes to for which dispatch finds no hook: nothing
\* below such a node or below a reference without a target is visited
UnknownReached(n) ==
    IF HookOf(n.kind) = "unknown" THEN {n.kind}
    ELSE IF n.kind = "reference" /\ n.attr \notin {"refuri", "refid"} THEN {}
    ELSE UnknownReachedAll(n.kids)
UnknownReachedAll(ns) ==
    IF ns = <<>> THEN {} ELSE UnknownReached(Head(ns)) \cup UnknownReachedAll(Tail(ns))

RECURSIVE UnnamedReached(_)
RECURSIVE UnnamedReachedAll(_)
\* the kinds the walk would come to that have no hook under their own name,
\* were nothing below such a node visited
UnnamedReached(n) ==
    IF n.kind \notin Registered THEN {n.kind}
    ELSE IF n.kind = "reference" /\ n.attr \notin {"refuri", "refid"} THEN {}
    ELSE UnnamedReachedAll(n.kids)
UnnamedReachedAll(ns) ==
    IF ns = <<>> THEN {} ELSE UnnamedReached(Head(ns)) \cup UnnamedReachedAll(Tail(ns))

TargetOf(n) == IF n.attr = "refuri" THEN n.text ELSE <<"#">> \o n.text

\* C9: from the enter hook of a reference with a target to its exit hook,
\* whatever its children are, the last entry of the current buffer is the
\* text "[T](U)" the enter hook added: nothing else is contributed.
C9_ReferenceText ==
    \A k \in 1..Len(path) :
        Open(k).kind = "reference" =>
            Last(Last(states)) = TextEntry(LinkText(astext(Open(k)), TargetOf(Open(k))))

\* C10: the enter hook of a reference with neither refuri nor refid
\* appends one message, adds no text, leaves the buffer, indentation and
\* list stacks and the flags as they are, and moves the walk to the next
\* sibling without entering the node.
C10_MissingTarget ==
    [][(Visiting("reference") /\ Child.attr \notin {"refuri", "refid"})
          => /\ messages' = Append(messages, MissingTarget)
             /\ path' = [path EXCEPT ![Len(path)].next = @ + 1]
             /\ pc' = "walk"
             /\ UNCHANGED <<bufv, listv, flagv, in_table_header, warned, logged, body>>]_vars

\* a reference without a target was passed over, a sibling is next
C10_Witness ==
    /\ HasNext
    /\ Last(path).next > 1
    /\ Cur.kids[Last(path).next - 1].kind = "reference"
    /\ Cur.kids[Last(path).next - 1].attr = ""
    /\ messages = <<MissingTarget>>
    /\ Last(states) = <<>>

\* the section nodes among the nodes a path has open
OpenSections(p) ==
    Cardinality({k \in 1..Len(p) : NodeAt(tree, Indices(SubSeq(p, 1, k))).kind = "section"})

\* C11: the heading-level counter is the number of open sections before and
\* after every step, and the exit of a title that is not the child of an
\* admonition folds into the enclosing buffer a first line that is as many
\* "#" as there are open sections, one space, and the title's first line.
C11_HeadingLevel ==
    [][/\ sectionlevel = OpenSections(path)
       /\ sectionlevel' = OpenSections(path')
       /\ (Departing("title") /\ pc' = "walk")
             => /\ Len(states'[Len(states')]) > Len(states[Len(states) - 1])
                /\ FoldedLine = Repeat("#", OpenSections(path)) \o <<" ">>
                                   \o my_wrap(astext(Cur), DefaultLineWidth).lines[1]]_vars

\* a title two sections deep was folded as "## Intro" and the walk is back
\* in the outer section
C11_Witness ==
    /\ pc = "walk"
    /\ sectionlevel = 1
    /\ Len(path) = 2
    /\ Last(path).next > 2
    /\ \E k \in 1..Len(Last(states)) :
          Last(states)[k].lines = <<<<"#", "#", " ", "I", "n", "t", "r", "o">>>>

\* the exit of a paragraph that opened its own buffer has returned
OwnParagraphExit == Departing("paragraph") /\ ~ParagraphInline(Parent) /\ pc' = "walk"

\* what a departure hook has folded into the enclosing buffer
Folded == SubSeq(states'[Len(states')], Len(states[Len(states) - 1]) + 1,
                 Len(states'[Len(states')]))

\* C12 (as the code has it): the exit of a paragraph that opened its own
\* buffer finalizes the buffer without wrapping: the paragraph contributes
\* its text cut at its line breaks only, and one empty line, whatever
\* max_line_width is.
C12_ParagraphUnwrapped ==
    [][OwnParagraphExit
          => Folded = <<LinesEntry(Last(stateindent),
                                   splitlines(astext(Cur)) \o <<<<>>>>)>>]_vars

\* C12 (as the claim has it): every line the paragraph contributes is at
\* most max_line_width minus the summed indentation of the open buffers wide.
C12_ParagraphWrapped ==
    [][OwnParagraphExit
          => \A e \in 1..Len(Folded) : \A l \in 1..Len(Folded[e].lines) :
                column_width(Folded[e].lines[l]) <= max_line_width - SumSeq(stateindent)]_vars

\* a paragraph of one word of five columns came out whole at line width 3
C12_Witness ==
    /\ pc = "done"
    /\ max_line_width = 3
    /\ tree = Doc(<<Para(<<"a", "a", "a", "a", "a">>)>>)
    /\ body = <<"a", "a", "a", "a", "a", "\n">>

\* some node a path has open is a verbatim context
VerbatimOpen(p) ==
    \E k \in 1..Len(p) :
        NodeAt(tree, Indices(SubSeq(p, 1, k))).kind \in {"literal", "inline", "literal_block"}

\* C13: after every step the literal-mode flag is set exactly when a
\* verbatim context is open, and the visit of a text node inside an open
\* verbatim context adds the text with every "<" escaped.
C13_LiteralFlag ==
    [][/\ pc' = "walk" => (in_literal' <=> VerbatimOpen(path'))
       /\ (Visiting("Text") /\ VerbatimOpen(path))
             => states' = add_text(states, Replace(Child.text, "<", <<"\\", "<">>))]_vars

\* the classifiers a definition-list item has as its own children
OwnClassifiers(item) ==
    Cardinality({j \in 1..Len(item.kids) : item.kids[j].kind = "classifier"})

\* the open node is the last classifier child of its definition-list item
LastClassifier ==
    \A j \in (Last(path).i + 1)..Len(Parent.kids) : Parent.kids[j].kind # "classifier"

\* a step removes the innermost buffer
Popped == Len(states') = Len(states) - 1

\* C14: the exit of a term closes the term buffer exactly when its
\* definition-list item has no classifier of its own, and the exit of a
\* classifier closes it exactly when the classifier is the last one of its
\* item; no other exit of a term or classifier changes the stack depth.
C14_TermBufferPopped ==
    [][/\ Departing("term")
            => /\ Popped <=> OwnClassifiers(Parent) = 0
               /\ Popped \/ Len(states') = Len(states)
       /\ Departing("classifier")
            => /\ Popped <=> LastClassifier
               /\ Popped \/ Len(states') = Len(states)]_vars

\* C15: a step that makes the run raise was handing the wrapper a width of
\* zero or less: the configured line width minus the indentation summed over
\* the buffers open when the step began, which is the width end_state wraps
\* to.
C15_RaisesOnlyOnWidth ==
    [][pc' = "raised" => max_line_width - SumSeq(stateindent) <= 0]_vars

\* all characters of a chunk have the same display width
Uniform(chunk) == \A i, j \in 1..Len(chunk) : CharWidth(chunk[i]) = CharWidth(chunk[j])

\* C16: no chunk of the tokenization of the text holds both a width-1 and
\* a width-2 character, and neither does any chunk still waiting to be
\* placed on a line.
C16_UniformChunks ==
    w_pc \in {"loop", "done"} =>
        /\ \A c \in TokensOf(w_text) : Uniform(c)
        /\ \A i \in 1..Len(w_chunks) : Uniform(w_chunks[i])

\* a text mixing both widths inside one word has been tokenized
C16_Witness ==
    /\ w_pc = "loop" /\ w_lines = <<>>
    /\ w_text = <<"a", "WIDE", "WIDE", "a", "a">>
    /\ w_chunks = <<<<"a">>, <<"WIDE">>, <<"WIDE">>, <<"a", "a">>>>

\* whitespace normalization: the words of a string, in order
WordsOf(s) == SelectSeq(SplitOn(Munge(s), " "), LAMBDA p : p # <<>>)

\* the lines as a set, each one whitespace-normalized
LineSet(lines) == {WordsOf(lines[i]) : i \in 1..Len(lines)}

\* the lines joined by single spaces and wrapped again at the same width
Reflow(lines, width) == my_wrap(Join(lines, <<" ">>), width)

\* C17: once the wrapper has returned the lines of a text at a width
\* w > 0, wrapping those lines joined by single spaces at the same width
\* returns as well, and its lines are content-equal to the first ones after
\* whitespace normalization: the same normalized lines, or at least the same
\* words in the same order.
C17_ReflowStable ==
    (w_pc = "done" /\ w_width > 0) =>
        /\ Reflow(w_lines, w_width).status = "ok"
        /\ \/ LineSet(Reflow(w_lines, w_width).lines) = LineSet(w_lines)
           \/ WordsOf(Join(Reflow(w_lines, w_width).lines, <<" ">>))
                 = WordsOf(Join(w_lines, <<" ">>))

\* --------------------------------------------------- airflow properties
\* C18: what asset_keys_in_task(dag_id, task_id) has returned is exactly
\* the set of keys of the specs that are task-mapped and whose task handles
\* include (dag_id, task_id); it is empty when no spec is mapped to the pair.
C18_KeysInTask ==
    a_pc = "returned" =>
        /\ a_result = {a_specs[i].key : i \in
                          {j \in 1..Len(a_specs) :
                              /\ is_task_mapped_asset_spec(a_specs[j])
                              /\ a_query \in task_handles_for_spec(a_specs[j])}}
        /\ (\A i \in 1..Len(a_specs) :
               ~is_task_mapped_asset_spec(a_specs[i])
               \/ a_query \notin task_handles_for_spec(a_specs[i]))
              => a_result = {}

\* two specs share the task asked for, and both keys have been returned
\* from a cache that earlier lookups had already filled
C18_Witness ==
    /\ a_pc = "returned"
    /\ a_query = TaskHandle("d1", "t1")
    /\ a_specs = <<AssetSpec("k1", TRUE, {TaskHandle("d1", "t1")}),
                   AssetSpec("k2", TRUE, {TaskHandle("d1", "t1"), TaskHandle("d2", "t2")})>>
    /\ a_result = {"k1", "k2"}
    /\ TaskHandle("d1", "t2") \in DOMAIN a_cache[1]

\* the characters still held by the chunks
CharCount(chunks) == Len(Concat(chunks))

\* C19: at every width w >= 1, each pass of the line-building loop leaves
\* fewer characters in the remaining chunks than it found, so the loop
\* reaches the empty chunk list and returns.
C19_LoopConsumes ==
    (w_pc = "loop" /\ w_chunks # <<>> /\ w_width >= 1) =>
        CharCount(WrapIteration(w_chunks, w_lines, w_width).chunks) < CharCount(w_chunks)

\* the chunks after the loop has skipped a leading blank chunk
Skipped(chunks, lines) ==
    IF drop_whitespace /\ IsBlank(Head(chunks)) /\ lines # <<>> THEN Tail(chunks) ELSE chunks

\* where the next pass of the loop stands once it has taken the chunks that fit
Packed == Pack(Skipped(w_chunks, w_lines), <<>>, 0, w_width)

\* the next pass of the loop breaks a chunk that is wider than the line
BreakPending ==
    /\ w_pc = "loop" /\ w_chunks # <<>>
    /\ Packed.chunks # <<>>
    /\ column_width(Head(Packed.chunks)) > w_width

\* the length of the longest prefix of a word that is at most `space` wide
LongestFit(word, space) ==
    CHOOSE n \in 0..Len(word) :
        /\ column_width(SubSeq(word, 1, n)) <= space
        /\ \A k \in (n + 1)..Len(word) : column_width(SubSeq(word, 1, k)) > space

\* C20: when a pass of the loop breaks a chunk wider than the line, the
\* piece it places on the line is the longest prefix of the chunk whose width
\* is at most the space left on the line, and the rest of the chunk is what
\* stays for the next line.
C20_LongestPrefix ==
    BreakPending =>
        LET word == Head(Packed.chunks)
            space_left == Max(w_width - Packed.cur_len, 1)
            n == LongestFit(word, space_left)
        IN BreakWord(word, space_left)
              = <<SubSeq(word, 1, n), SubSeq(word, n + 1, Len(word))>>

\* C21: at every width w > 0 no line the wrapper has produced ends with
\* whitespace, and no line after the first begins with whitespace: blank
\* chunks at the end of a line and at the start of a later line are dropped.
C21_NoEdgeWhitespace ==
    (w_pc \in {"loop", "done"} /\ w_width > 0) =>
        \A i \in 1..Len(w_lines) :
            w_lines[i] # <<>> =>
                /\ ~IsSpace(Last(w_lines[i]))
                /\ i > 1 => ~IsSpace(Head(w_lines[i]))

\* the buffer that encloses the innermost one
Enclosing(sts) == sts[Len(sts) - 1]

\* C22: the exit of an item of a bullet list folds the item's buffer into
\* the enclosing buffer and discards one entry from it: that entry is the
\* empty terminator line of the fold, and every entry the enclosing buffer
\* held before the exit is still there after it.
C22_DiscardsTerminator ==
    [][(Departing("list_item") /\ Parent.kind = "bullet_list" /\ pc' = "walk")
          => /\ Last(Last(end_state(states, stateindent, FALSE, DefaultEnd,
                                    Some(<<"-", " ">>), max_line_width).states)).lines
                   = <<<<>>>>
             /\ IsPrefix(Enclosing(states), Last(states'))]_vars

RECURSIVE AllLines(_)
\* every line of every entry of a buffer, in order
AllLines(buffer) ==
    IF buffer = <<>> THEN <<>>
    ELSE (IF Head(buffer).ind = -1 THEN splitlines(Head(buffer).text)
          ELSE Head(buffer).lines) \o AllLines(Tail(buffer))

\* the cell string the exit of a table cell has appended to the current row
NewCell == Last(row_objs'[current_row])

\* C23: the exit of a table cell appends to the current row one string that
\* holds the words of every line of every entry of the cell's buffer, in
\* order and separated by single spaces, without a line break and without
\* whitespace at either end, and removes the cell's buffer and its
\* indentation entry from their stacks.
C23_CellText ==
    [][Departing("entry")
          => /\ Len(row_objs'[current_row]) = Len(row_objs[current_row]) + 1
             /\ NewCell = Join(WordsOf(Join(AllLines(Last(states)), <<" ">>)), <<" ">>)
             /\ states' = Front(states)
             /\ stateindent' = Front(stateindent)]_vars

\* the entries a step has appended to the buffer enclosing the innermost one
Appended(after) == SubSeq(Last(after), Len(Enclosing(states)) + 1, Len(Last(after)))

\* the finalized lines of the innermost buffer of an enumerated item: what
\* end_state folds into the enclosing buffer when it is given no prefix
FinalizedLines ==
    AllLines(Appended(end_state(states, stateindent, FALSE, None, None,
                                max_line_width).states))

\* the marker of the enumerated item that is open
ItemMarker == Str(Last(list_counter)) \o <<".", " ">>

\* C24: the exit of an item of an enumerated list, which pops the item's
\* buffer with the item's marker as prefix, appends lines to the enclosing
\* buffer of which the first starts with the marker: the marker followed by
\* the first finalized line, the marker alone when that line is empty; the
\* other finalized lines follow it unchanged and in order.
C24_PrefixSpliced ==
    [][(/\ Departing("list_item")
        /\ Parent.kind = "enumerated_list"
        /\ Last(list_counter) \notin {BULLET, DEFLIST}
        /\ pc' = "walk")
          => /\ AllLines(Appended(states')) # <<>>
             /\ IsPrefix(ItemMarker, AllLines(Appended(states'))[1])
             /\ FinalizedLines # <<>>
                   => /\ AllLines(Appended(states'))[1] = ItemMarker \o FinalizedLines[1]
                      /\ \/ Tail(AllLines(Appended(states'))) = Tail(FinalizedLines)
                         \/ /\ FinalizedLines[1] = <<>>
                            /\ Tail(AllLines(Appended(states'))) = FinalizedLines]_vars

\* the exit of a node whose buffer is finalized with wrapping and a prefix
PrefixedExit ==
    /\ pc = "walk" /\ path # <<>> /\ Last(path).next > Len(Cur.kids)
    /\ Cur.kind \in {"title"} \cup LabelledKinds

\* C25: every line that the exit of a section title or of a labelled
\* admonition folds into the enclosing buffer, the first one with its prefix
\* included, is at most max_line_width wide when counted with the
\* indentation it is emitted at.
C25_PrefixedWidth ==
    [][(PrefixedExit /\ pc' = "walk")
          => \A k \in 1..Len(Appended(states')) :
                \A j \in 1..Len(Appended(states')[k].lines) :
                    SumSeq(stateindent') + Appended(states')[k].ind
                       + column_width(Appended(states')[k].lines[j]) <= max_line_width]_vars

\* the walk is about to leave a cell of the outermost table that holds a
\* table of its own: the nested table has been entered and left
NestedTableLeft ==
    /\ Departing("entry")
    /\ Len(path) = 6
    /\ Open(2).kind = "table"
    /\ Cur.kids # <<>> /\ Last(Cur.kids).kind = "table"

\* C26: once a table nested in a cell of another table has been entered
\* and left, the accumulator holds what the outer table had collected before
\* it: the outer table's column widths, its header cells, the body rows
\* before the current one and the cells of the current row before this cell.
C26_OuterTableKept ==
    NestedTableLeft =>
        /\ colwidths = [j \in 1..Len(SpecsOf(Open(2))) |-> SpecsOf(Open(2))[j].num]
        /\ HeadsOf(Open(2)) # <<>>
              => row_objs[table_header] = CellsOf(HeadsOf(Open(2))[1].kids[1])
        /\ Len(table_body) = path[5].i - 1
        /\ Len(row_objs[current_row]) = path[6].i - 1

=============================================================================
